---- MODULE Spec2Model ----
(***************************************************************************)
(* Model of the homeassistant core kernel (src/homeassistant/__init__.py): *)
(* the EventBus listener table and fire/listen/listen_once/remove_listener, *)
(* the worker pool consuming prioritised jobs, and the StateMachine.       *)
(***************************************************************************)
EXTENDS Integers, Sequences, FiniteSets, Bags, TLC

\* ---------------------------------------------------------------------
\* Event type constants and MATCH_ALL sentinel
\* ---------------------------------------------------------------------
MATCH_ALL == "*"
EVENT_TIME_CHANGED == "time_changed"
EVENT_STATE_CHANGED == "state_changed"
EVENT_CALL_SERVICE == "call_service"
EVENT_SERVICE_EXECUTED == "service_executed"
EVENT_HOMEASSISTANT_START == "homeassistant_start"
EVENT_HOMEASSISTANT_STOP == "homeassistant_stop"
EVENT_SERVICE_REGISTERED == "service_registered"
SERVICE_HOMEASSISTANT_STOP == "stop"

\* JobPriority values
EVENT_CALLBACK == 0
EVENT_SERVICE == 1
EVENT_STATE == 2
EVENT_TIME == 3
EVENT_DEFAULT == 4

\* Number of worker threads of the pool created by create_worker_pool
MIN_WORKER_THREAD == 2

\* ---------------------------------------------------------------------
\* Bounds
\* ---------------------------------------------------------------------
MaxFires == 2
MaxListens == 2
MaxSets == 2
MaxTime == 2

\* ---------------------------------------------------------------------
\* Threads and identities
\* ---------------------------------------------------------------------
Workers == 1..MIN_WORKER_THREAD
Callers == {"c1", "c2"}
\* a listener that raises an exception
Raiser == "bad"
NoLock == "none"
\* Plain listeners registered by callers, the one-time guard wrapper "g"
\* created by listen_once, whose target is "f".
PlainListeners == {"p1", "p2"}
Guard == "g"
Target == "f"
\* Event types fired by callers in the bus specification
FireTypes == {"x", EVENT_TIME_CHANGED}
\* (event_type, listener) pairs passed to listen / remove_listener
ListenPairs == {<<MATCH_ALL, "p1">>, <<"x", "p2">>}
OnceType == "x"

VARIABLES
  listeners,   \* EventBus._listeners: event_type -> Seq(listener)
  busLock,     \* EventBus._lock holder
  cpc,         \* caller thread position inside fire
  csnap,       \* caller's local copy of the listener list (fire)
  cpos,        \* index of the next listener to enqueue (fire loop)
  cfire,       \* index in fireLog of the fire in progress
  queue,       \* pending jobs of the worker pool
  seqNo,       \* enqueue sequence counter of the pool
  wpc,         \* worker position
  wjob,        \* job held by a worker
  runFlag,     \* onetime_listener.run attribute set
  fireLog,     \* history: one record per fire call
  enqLog,      \* history: jobs in enqueue order
  deqLog,      \* history: jobs in dequeue order
  execLog,     \* history: bag of listener bodies executed
  nListens,    \* number of listen calls made
  onceDone,    \* listen_once has been called
  states,      \* StateMachine._states: entity_id -> State
  clock,       \* wall clock read by datetime.now(), in ticks
  setLog,      \* history: one record per StateMachine.set call
  smEvents,    \* history: data of the state_changed events fired by set
  heap,        \* State objects by identity: obj id -> [state, attributes,
               \* last_updated]
  smRefs,      \* StateMachine._states as references: entity_id -> obj id
  held,        \* obj ids of States handed to a caller by reads
  shadow,      \* the (state, attributes) last stored by set per entity
  reader,      \* the thread inside get / all: position, object being
               \* copied, fields read, iterator state, copies made, outcome
  setter,      \* the thread inside set: position, new_state, comparison
  entries,     \* entries array of the _states dict in insertion order:
               \* "live" or "dummy" (deleted) per slot
  services,    \* ServiceRegistry._services (domain "test"): service names
  curId,       \* ServiceRegistry._cur_id
  scPc,        \* position of the thread calling ServiceRegistry.call
  scCall,      \* the call in progress: id, service, blocking, deadline
  gate,        \* ids of the calls whose executed_event is set
  callLog,     \* history: returned calls with their result
  svNow,       \* wall clock in seconds for the service calls
  wake,        \* per worker, the time a sleeping handler returns
  svcFires,    \* history: service_call_id of each service_executed fire
  svcRuns,     \* history: handler invocations and how they ended
  regCur,      \* _cur_id of each ServiceRegistry sharing the bus
  gpc,         \* position of each thread inside _generate_unique_id
  greg,        \* the registry a thread is generating an id on
  gtmp,        \* the _cur_id value a thread loaded for the increment
  genIds,      \* history: call ids returned, as <<registry, number>>
  ptRun,       \* point_in_time_listener.run attribute set
  ptClock,     \* number of time_changed events fired (now of the next one)
  ptCalls,     \* history: now passed to each action(now) call
  tmPc,        \* position of the Timer thread
  tmInterval,  \* Timer.interval
  tNow,        \* wall clock in tenths of a second, read by calc_now()
  tmLast,      \* last_fired_on_second
  tmWake,      \* time at which the Timer's sleep returns, and its overshoot
  tmFires,     \* history: now of each time_changed fired, with the overshoot
               \* of the sleep before it
  tcIn,        \* track_change arguments and a state_changed event
  hassPc,      \* position of the thread calling start() and stop()
  timerPc,     \* position of the Timer thread
  stopEvent,   \* Timer._stop_event set
  drainedAtStop, \* queue empty and workers idle when pool.stop() was called
  blockPc,     \* position of the thread inside block_till_stopped
  shutdown,    \* block_till_stopped's request_shutdown event set
  rtIn,        \* a State object passed through as_dict / from_dict
  rtOut,       \* State.from_dict(rtIn.as_dict())
  removeRet,   \* value returned by the last StateMachine.remove ("none" before)
  dIn,         \* service_data passed to ServiceRegistry.call, as passed
  dCaller,     \* the caller's service_data object after call returned
  dEvent,      \* data of the call_service event fired by call
  dCall,       \* data of the ServiceCall built by _event_to_service_call
  dPrio,       \* priority of the job it added (-1: none)
  dPc,         \* "idle", "fired" (event fired), "done" (event handled)
  tcOut        \* whether state_listener called action for that event
               \* ("called" / "ignored"; "none" before it ran)

smVars == <<states, clock, setLog, smEvents>>
busVars == <<listeners, busLock, cpc, csnap, cpos, cfire, queue, seqNo, wpc,
             wjob, runFlag, fireLog, enqLog, deqLog, execLog, nListens, onceDone>>
heapVars == <<heap, smRefs, held, shadow, reader, setter, entries>>
svcVars == <<services, curId, scPc, scCall, gate, callLog, svNow, wake,
             svcFires, svcRuns>>
\* variables of the later parts of the model, left alone by the bus and
\* state-machine actions above
idVars == <<regCur, gpc, greg, gtmp, genIds>>
ptVars == <<ptRun, ptClock, ptCalls>>
tmVars == <<tmPc, tmInterval, tNow, tmLast, tmWake, tmFires>>
tcVars == <<tcIn, tcOut>>
stopVars == <<hassPc, timerPc, stopEvent, drainedAtStop>>
haltVars == <<blockPc, shutdown>>
rtVars == <<rtIn, rtOut>>
remVars == <<removeRet>>
dataVars == <<dIn, dCaller, dEvent, dCall, dPrio, dPc>>
extVars == <<heapVars, svcVars, idVars, ptVars, tmVars, tcVars, stopVars, haltVars, rtVars, remVars, dataVars>>
otherVarsRem == <<heapVars, svcVars, idVars, ptVars, tmVars, tcVars, stopVars, haltVars, rtVars, dataVars>>
vars == <<busVars, smVars, extVars>>

\* event data / call carried by a job: service name, service_call_id, now
NoArg == [svc |-> "", cid |-> 0, now |-> 0]
NoJob == [prio |-> -1, seq |-> 0, fn |-> "none", fire |-> 0, arg |-> NoArg]

\* ---------------------------------------------------------------------
\* JobPriority.from_event_type
\* ---------------------------------------------------------------------
from_event_type_swapped(event_type) ==
  IF event_type = EVENT_TIME_CHANGED THEN EVENT_DEFAULT
  ELSE IF event_type = EVENT_STATE_CHANGED THEN EVENT_STATE
  ELSE IF event_type = EVENT_CALL_SERVICE THEN EVENT_SERVICE
  ELSE IF event_type = EVENT_SERVICE_EXECUTED THEN EVENT_CALLBACK
  ELSE EVENT_TIME

from_event_type(event_type) ==
  IF event_type = EVENT_TIME_CHANGED THEN EVENT_TIME
  ELSE IF event_type = EVENT_STATE_CHANGED THEN EVENT_STATE
  ELSE IF event_type = EVENT_CALL_SERVICE THEN EVENT_SERVICE
  ELSE IF event_type = EVENT_SERVICE_EXECUTED THEN EVENT_CALLBACK
  ELSE EVENT_DEFAULT

\* ---------------------------------------------------------------------
\* Listener table operations (dict of lists)
\* ---------------------------------------------------------------------
Get(tbl, k) == IF k \in DOMAIN tbl THEN tbl[k] ELSE << >>

\* listen inserting the new listener at the front of the list
listenPrepend(tbl, event_type, listener) ==
  IF event_type \in DOMAIN tbl
  THEN [tbl EXCEPT ![event_type] = <<listener>> \o @]
  ELSE tbl @@ (event_type :> <<listener>>)

listen(tbl, event_type, listener) ==
  IF event_type \in DOMAIN tbl
  THEN [tbl EXCEPT ![event_type] = Append(@, listener)]
  ELSE tbl @@ (event_type :> <<listener>>)

\* list.remove: drop the first occurrence
RemoveFirst(s, l) ==
  LET i == CHOOSE i \in 1..Len(s) : s[i] = l /\ \A j \in 1..(i-1) : s[j] # l
  IN SubSeq(s, 1, i-1) \o SubSeq(s, i+1, Len(s))

\* remove_listener without deleting an emptied list
remove_listenerKeepEmpty(tbl, event_type, listener) ==
  IF event_type \in DOMAIN tbl /\ \E i \in 1..Len(tbl[event_type]) : tbl[event_type][i] = listener
  THEN [tbl EXCEPT ![event_type] = RemoveFirst(@, listener)]
  ELSE tbl

remove_listener(tbl, event_type, listener) ==
  IF event_type \in DOMAIN tbl /\ \E i \in 1..Len(tbl[event_type]) : tbl[event_type][i] = listener
  THEN LET r == RemoveFirst(tbl[event_type], listener)
       IN IF r = << >>
          THEN [k \in DOMAIN tbl \ {event_type} |-> tbl[k]]
          ELSE [tbl EXCEPT ![event_type] = r]
  ELSE tbl

\* EventBus.listeners: event_type -> number of listeners
listeners_view(tbl) == [k \in DOMAIN tbl |-> Len(tbl[k])]

\* The copy taken by fire: listeners[MATCH_ALL] + listeners[event_type]
FireSnapshotNoMatchAll(tbl, event_type) == Get(tbl, event_type)
FireSnapshotTypeFirst(tbl, event_type) == Get(tbl, event_type) \o Get(tbl, MATCH_ALL)
FireSnapshot(tbl, event_type) == Get(tbl, MATCH_ALL) \o Get(tbl, event_type)

\* ---------------------------------------------------------------------
\* Worker pool (util.ThreadPool): priority queue, FIFO within a priority
\* ---------------------------------------------------------------------
JobLess(a, b) == a.prio < b.prio \/ (a.prio = b.prio /\ a.seq < b.seq)
NextJob(q) == CHOOSE j \in q : \A k \in q : k # j => JobLess(j, k)

Drained ==
  /\ queue = {}
  /\ \A w \in Workers : wpc[w] = "idle"
  /\ \A c \in Callers : cpc[c] = "idle"

\* ---------------------------------------------------------------------
\* Entity ids, State objects and time
\* ---------------------------------------------------------------------
\* Entity ids are strings, modelled as sequences of characters. "Idot"
\* stands for U+0130 (LATIN CAPITAL LETTER I WITH DOT ABOVE, a word
\* character) and "dotabove" for U+0307 (COMBINING DOT ABOVE, not a word
\* character).
WordChars == {"a", "A", "i", "Idot"}
RawIds == {<<"A", ".", "a">>, <<"a", ".", "a", "\n">>, <<"a", "a">>}
StateValues == {"on", "off"}
NoAttrs == [k \in {} |-> 0]
AttrValues == {NoAttrs, ("bri" :> 1)}
None == -1
NoState == [entity_id |-> << >>, state |-> "", attributes |-> NoAttrs,
            last_updated |-> None, last_changed |-> None]

\* str.lower of one character: U+0130 lowercases to two characters
LowerChar(c) ==
  IF c = "A" THEN <<"a">>
  ELSE IF c = "Idot" THEN <<"i", "dotabove">>
  ELSE <<c>>
\* str.lower
RECURSIVE Lower(_)
Lower(s) == IF s = << >> THEN << >> ELSE LowerChar(Head(s)) \o Lower(Tail(s))

\* ENTITY_ID_PATTERN.match: ^(\w+)\.(\w+)$ where $ also matches right
\* before a trailing newline
IsWordPy(s) == Len(s) > 0 /\ \A i \in 1..Len(s) : s[i] \in WordChars
WordDotWord(s) ==
  \E i \in 2..(Len(s) - 1) :
    /\ s[i] = "."
    /\ IsWordPy(SubSeq(s, 1, i - 1))
    /\ IsWordPy(SubSeq(s, i + 1, Len(s)))
ENTITY_ID_PATTERN_match(s) ==
  \/ WordDotWord(s)
  \/ (Len(s) > 0 /\ s[Len(s)] = "\n" /\ WordDotWord(SubSeq(s, 1, Len(s) - 1)))

\* datetime.now() advances in ticks of 1/TicksPerSecond second
TicksPerSecond == 2
\* util.strip_microseconds
strip_microseconds(t) == (t \div TicksPerSecond) * TicksPerSecond

\* State.__init__ (after the entity id check): last_updated = now,
\* last_changed = strip_microseconds(last_changed or last_updated)
State_init(entity_id, state, attributes, last_changed, now) ==
  [entity_id |-> Lower(entity_id), state |-> state, attributes |-> attributes,
   last_updated |-> now,
   last_changed |-> strip_microseconds(IF last_changed = None THEN now ELSE last_changed)]

\* StateMachine.get: lookup by lowercased id; a stored State is returned as
\* state.copy(), i.e. State(entity_id, state, dict(attributes), last_changed),
\* whose __init__ stamps last_updated with the current time
get(sts, entity_id, now) ==
  IF Lower(entity_id) \in DOMAIN sts
  THEN LET st == sts[Lower(entity_id)]
       IN State_init(st.entity_id, st.state, st.attributes, st.last_changed, now)
  ELSE NoState

NoObj == [state |-> "", attributes |-> NoAttrs, last_updated |-> None]
\* no get / all call in progress
NoReader == [pc |-> "idle", mode |-> "get", obj |-> 0, fields |-> NoObj,
             used |-> 0, pos |-> 1, len |-> 0, done |-> << >>, out |-> "none"]
\* no set call in progress
NoSetter == [pc |-> "idle", val |-> "", same |-> FALSE]


\* Python values compared by track_change: a state string or None
PyStr(x) == [none |-> FALSE, s |-> x]
PyNone == [none |-> TRUE, s |-> ""]
\* an argument of track_change: None, a str, or an iterable (list) of values
ArgNone == [kind |-> "none", v |-> << >>]
ArgStr(x) == [kind |-> "str", v |-> <<x>>]
ArgList(l) == [kind |-> "list", v |-> l]
NoTrackIn == [ids |-> ArgNone, from |-> ArgNone, to |-> ArgNone,
              entity |-> << >>, hasOld |-> FALSE, old |-> "", new |-> ""]
\* two ServiceRegistry objects sharing the bus (distinct id(self)) and two
\* threads calling services
Registries == {"r1", "r2"}
NoRegistry == "none"
IdThreads == {"t1", "t2"}
NoCall == [cid |-> 0, svc |-> "", blocking |-> FALSE, deadline |-> 0]

\* every variable but the listener table and the registered services
\* datetime values of the serialization part: date, time and microseconds
\* (in units of 500000); a None datetime has year 0
PyNoneDt == [Y |-> 0, Mo |-> 0, D |-> 0, h |-> 0, mi |-> 0, s |-> 0, us |-> 0]
RtNoState == [entity_id |-> << >>, state |-> "", attributes |-> NoAttrs,
              last_updated |-> PyNoneDt, last_changed |-> PyNoneDt]
\* outcome of a constructor that raised InvalidEntityFormatError
RtRaised == [entity_id |-> <<"raised">>, state |-> "", attributes |-> NoAttrs,
             last_updated |-> PyNoneDt, last_changed |-> PyNoneDt]

\* Python dicts of string keys and values, and None in place of a dict
EmptyDict == [k \in {} |-> ""]
PyDict(f) == [none |-> FALSE, d |-> f]
DictNone == [none |-> TRUE, d |-> EmptyDict]

InitBase ==
  /\ busLock = NoLock
  /\ cpc = [c \in Callers |-> "idle"]
  /\ csnap = [c \in Callers |-> << >>]
  /\ cpos = [c \in Callers |-> 0]
  /\ cfire = [c \in Callers |-> 0]
  /\ queue = {}
  /\ seqNo = 1
  /\ wpc = [w \in Workers |-> "idle"]
  /\ wjob = [w \in Workers |-> NoJob]
  /\ runFlag = FALSE
  /\ fireLog = << >>
  /\ enqLog = << >>
  /\ deqLog = << >>
  /\ execLog = EmptyBag
  /\ nListens = 0
  /\ onceDone = FALSE
  /\ states = [e \in {} |-> NoState]
  /\ clock = 0
  /\ setLog = << >>
  /\ smEvents = << >>
  /\ heap = [o \in {} |-> NoObj]
  /\ smRefs = [e \in {} |-> 0]
  /\ held = {}
  /\ shadow = [e \in {} |-> NoObj]
  /\ reader = NoReader
  /\ setter = NoSetter
  /\ entries = << >>
  /\ curId = 0
  /\ scPc = "idle"
  /\ scCall = NoCall
  /\ gate = {}
  /\ callLog = << >>
  /\ svNow = 0
  /\ wake = [w \in Workers |-> 0]
  /\ svcFires = << >>
  /\ svcRuns = << >>
  /\ regCur = [r \in Registries |-> 0]
  /\ gpc = [t \in IdThreads |-> "idle"]
  /\ greg = [t \in IdThreads |-> NoRegistry]
  /\ gtmp = [t \in IdThreads |-> 0]
  /\ genIds = << >>
  /\ ptRun = FALSE
  /\ ptClock = 0
  /\ ptCalls = << >>
  /\ tmPc = "new"
  /\ tmInterval = 0
  /\ tNow = 0
  /\ tmLast = 0
  /\ tmWake = [at |-> 0, overshoot |-> 0]
  /\ tmFires = << >>
  /\ tcOut = "none"
  /\ hassPc = "new"
  /\ timerPc = "none"
  /\ stopEvent = FALSE
  /\ drainedAtStop = FALSE
  /\ blockPc = "none"
  /\ shutdown = FALSE
  /\ rtIn = RtNoState
  /\ rtOut = RtNoState
  /\ removeRet = "none"
  /\ dIn = DictNone
  /\ dCaller = DictNone
  /\ dEvent = EmptyDict
  /\ dCall = EmptyDict
  /\ dPrio = -1
  /\ dPc = "idle"

Init ==
  /\ InitBase
  /\ tcIn = NoTrackIn
  /\ listeners = [k \in {} |-> << >>]
  /\ services = {}

\* ---------------------------------------------------------------------
\* EventBus.fire: under the lock, copy the listener list, then add one job
\* per listener (still under the lock). Returns early if no listener.
\* ---------------------------------------------------------------------
\* fire that releases the lock right after copying the listener list
FireBeginUnlocked(c, event_type) ==
  /\ cpc[c] = "idle"
  /\ busLock = NoLock
  /\ Len(fireLog) < MaxFires
  /\ LET snap == FireSnapshot(listeners, event_type) IN
     /\ fireLog' = Append(fireLog, [type |-> event_type, table |-> listeners])
     /\ IF snap = << >>
        THEN UNCHANGED <<busLock, cpc, csnap, cpos, cfire>>
        ELSE /\ UNCHANGED busLock
             /\ cpc' = [cpc EXCEPT ![c] = "enq"]
             /\ csnap' = [csnap EXCEPT ![c] = snap]
             /\ cpos' = [cpos EXCEPT ![c] = 1]
             /\ cfire' = [cfire EXCEPT ![c] = Len(fireLog) + 1]
  /\ UNCHANGED <<listeners, queue, seqNo, wpc, wjob, runFlag, enqLog, deqLog,
                 execLog, nListens, onceDone>>
  /\ UNCHANGED smVars
  /\ UNCHANGED extVars

FireBegin(c, event_type) ==
  /\ cpc[c] = "idle"
  /\ busLock = NoLock
  /\ Len(fireLog) < MaxFires
  /\ LET snap == FireSnapshot(listeners, event_type) IN
     /\ fireLog' = Append(fireLog, [type |-> event_type, table |-> listeners])
     /\ IF snap = << >>
        THEN UNCHANGED <<busLock, cpc, csnap, cpos, cfire>>
        ELSE /\ busLock' = c
             /\ cpc' = [cpc EXCEPT ![c] = "enq"]
             /\ csnap' = [csnap EXCEPT ![c] = snap]
             /\ cpos' = [cpos EXCEPT ![c] = 1]
             /\ cfire' = [cfire EXCEPT ![c] = Len(fireLog) + 1]
  /\ UNCHANGED <<listeners, queue, seqNo, wpc, wjob, runFlag, enqLog, deqLog,
                 execLog, nListens, onceDone>>
  /\ UNCHANGED smVars
  /\ UNCHANGED extVars

FireEnq(c) ==
  /\ cpc[c] = "enq"
  /\ LET job == [prio |-> from_event_type(fireLog[cfire[c]].type),
                 seq |-> seqNo, fn |-> csnap[c][cpos[c]], fire |-> cfire[c],
                 arg |-> NoArg]
     IN /\ queue' = queue \cup {job}
        /\ enqLog' = Append(enqLog, job)
  /\ seqNo' = seqNo + 1
  /\ IF cpos[c] = Len(csnap[c])
     THEN /\ cpc' = [cpc EXCEPT ![c] = "idle"]
          /\ busLock' = NoLock
          /\ csnap' = [csnap EXCEPT ![c] = << >>]
          /\ cpos' = [cpos EXCEPT ![c] = 0]
          /\ cfire' = [cfire EXCEPT ![c] = 0]
     ELSE /\ cpos' = [cpos EXCEPT ![c] = @ + 1]
          /\ UNCHANGED <<cpc, busLock, csnap, cfire>>
  /\ UNCHANGED <<listeners, wpc, wjob, runFlag, fireLog, deqLog, execLog,
                 nListens, onceDone>>
  /\ UNCHANGED smVars
  /\ UNCHANGED extVars

\* EventBus.listen, with at most cap listen calls in a run
ListenCapped(event_type, l, cap) ==
  /\ busLock = NoLock
  /\ nListens < cap
  /\ listeners' = listen(listeners, event_type, l)
  /\ nListens' = nListens + 1
  /\ UNCHANGED <<busLock, cpc, csnap, cpos, cfire, queue, seqNo, wpc, wjob,
                 runFlag, fireLog, enqLog, deqLog, execLog, onceDone>>
  /\ UNCHANGED smVars
  /\ UNCHANGED extVars

\* EventBus.listen
Listen(event_type, l) == ListenCapped(event_type, l, MaxListens)

\* EventBus.listen_once: registers the onetime_listener wrapper
ListenOnce ==
  /\ busLock = NoLock
  /\ ~onceDone
  /\ listeners' = listen(listeners, OnceType, Guard)
  /\ onceDone' = TRUE
  /\ UNCHANGED <<busLock, cpc, csnap, cpos, cfire, queue, seqNo, wpc, wjob,
                 runFlag, fireLog, enqLog, deqLog, execLog, nListens>>
  /\ UNCHANGED smVars
  /\ UNCHANGED extVars

\* EventBus.remove_listener called by a client thread
\* remove_listener that leaves an emptied bucket in the table
RemoveListenerKeepEmpty(event_type, l) ==
  /\ busLock = NoLock
  /\ listeners' =
       IF event_type \in DOMAIN listeners /\ \E i \in 1..Len(listeners[event_type]) : listeners[event_type][i] = l
       THEN [listeners EXCEPT ![event_type] = RemoveFirst(@, l)]
       ELSE listeners
  /\ UNCHANGED <<busLock, cpc, csnap, cpos, cfire, queue, seqNo, wpc, wjob,
                 runFlag, fireLog, enqLog, deqLog, execLog, nListens, onceDone>>
  /\ UNCHANGED smVars
  /\ UNCHANGED extVars

RemoveListener(event_type, l) ==
  /\ busLock = NoLock
  /\ listeners' = remove_listener(listeners, event_type, l)
  /\ UNCHANGED <<busLock, cpc, csnap, cpos, cfire, queue, seqNo, wpc, wjob,
                 runFlag, fireLog, enqLog, deqLog, execLog, nListens, onceDone>>
  /\ UNCHANGED smVars
  /\ UNCHANGED extVars

\* ---------------------------------------------------------------------
\* Workers
\* ---------------------------------------------------------------------
Dequeue(w) ==
  /\ wpc[w] = "idle"
  /\ queue # {}
  /\ LET job == NextJob(queue) IN
     /\ queue' = queue \ {job}
     /\ wjob' = [wjob EXCEPT ![w] = job]
     /\ wpc' = [wpc EXCEPT ![w] = IF job.fn = Guard THEN "check" ELSE "run"]
     /\ deqLog' = Append(deqLog, job)
  /\ UNCHANGED <<listeners, busLock, cpc, csnap, cpos, cfire, seqNo, runFlag,
                 fireLog, enqLog, execLog, nListens, onceDone>>
  /\ UNCHANGED smVars
  /\ UNCHANGED extVars

\* job_handler running a plain listener
RunListener(w) ==
  /\ wpc[w] = "run"
  /\ execLog' = execLog (+) SetToBag({[fn |-> wjob[w].fn, fire |-> wjob[w].fire]})
  /\ wpc' = [wpc EXCEPT ![w] = "idle"]
  /\ wjob' = [wjob EXCEPT ![w] = NoJob]
  /\ UNCHANGED <<listeners, busLock, cpc, csnap, cpos, cfire, queue, seqNo,
                 runFlag, fireLog, enqLog, deqLog, nListens, onceDone>>
  /\ UNCHANGED smVars
  /\ UNCHANGED extVars

\* a listener whose body raises; job_handler dies with it
RunRaisingUncaught(w) ==
  /\ wpc[w] = "run"
  /\ wjob[w].fn = Raiser
  /\ execLog' = execLog (+) SetToBag({[fn |-> Raiser, fire |-> wjob[w].fire]})
  /\ wpc' = [wpc EXCEPT ![w] = "dead"]
  /\ wjob' = [wjob EXCEPT ![w] = NoJob]
  /\ UNCHANGED <<listeners, busLock, cpc, csnap, cpos, cfire, queue, seqNo,
                 runFlag, fireLog, enqLog, deqLog, nListens, onceDone>>
  /\ UNCHANGED smVars
  /\ UNCHANGED extVars

\* job_handler running a listener whose body raises: the exception is
\* caught and logged, the worker goes back to the pool
RunRaising(w) ==
  /\ wpc[w] = "run"
  /\ wjob[w].fn = Raiser
  /\ execLog' = execLog (+) SetToBag({[fn |-> Raiser, fire |-> wjob[w].fire]})
  /\ wpc' = [wpc EXCEPT ![w] = "idle"]
  /\ wjob' = [wjob EXCEPT ![w] = NoJob]
  /\ UNCHANGED <<listeners, busLock, cpc, csnap, cpos, cfire, queue, seqNo,
                 runFlag, fireLog, enqLog, deqLog, nListens, onceDone>>
  /\ UNCHANGED smVars
  /\ UNCHANGED extVars

\* onetime_listener: if not hasattr(onetime_listener, 'run')
GuardCheck(w) ==
  /\ wpc[w] = "check"
  /\ IF runFlag
     THEN /\ wpc' = [wpc EXCEPT ![w] = "idle"]
          /\ wjob' = [wjob EXCEPT ![w] = NoJob]
     ELSE /\ wpc' = [wpc EXCEPT ![w] = "set"]
          /\ UNCHANGED wjob
  /\ UNCHANGED <<listeners, busLock, cpc, csnap, cpos, cfire, queue, seqNo,
                 runFlag, fireLog, enqLog, deqLog, execLog, nListens, onceDone>>
  /\ UNCHANGED smVars
  /\ UNCHANGED extVars

\* onetime_listener.run = True
GuardSet(w) ==
  /\ wpc[w] = "set"
  /\ runFlag' = TRUE
  /\ wpc' = [wpc EXCEPT ![w] = "remove"]
  /\ UNCHANGED <<listeners, busLock, cpc, csnap, cpos, cfire, queue, seqNo,
                 wjob, fireLog, enqLog, deqLog, execLog, nListens, onceDone>>
  /\ UNCHANGED smVars
  /\ UNCHANGED extVars

\* self.remove_listener(event_type, onetime_listener)
GuardRemove(w) ==
  /\ wpc[w] = "remove"
  /\ busLock = NoLock
  /\ listeners' = remove_listener(listeners, OnceType, Guard)
  /\ wpc' = [wpc EXCEPT ![w] = "invoke"]
  /\ UNCHANGED <<busLock, cpc, csnap, cpos, cfire, queue, seqNo, wjob,
                 runFlag, fireLog, enqLog, deqLog, execLog, nListens, onceDone>>
  /\ UNCHANGED smVars
  /\ UNCHANGED extVars

\* listener(event)
GuardInvoke(w) ==
  /\ wpc[w] = "invoke"
  /\ execLog' = execLog (+) SetToBag({[fn |-> Target, fire |-> wjob[w].fire]})
  /\ wpc' = [wpc EXCEPT ![w] = "idle"]
  /\ wjob' = [wjob EXCEPT ![w] = NoJob]
  /\ UNCHANGED <<listeners, busLock, cpc, csnap, cpos, cfire, queue, seqNo,
                 runFlag, fireLog, enqLog, deqLog, nListens, onceDone>>
  /\ UNCHANGED smVars
  /\ UNCHANGED extVars

\* ---------------------------------------------------------------------
\* StateMachine
\* ---------------------------------------------------------------------
\* event_data of the state_changed event fired by set
StateChangedDataNoOld(entity_id, new, old, is_existing) ==
  [entity_id |-> entity_id, new_state |-> new, hasOld |-> FALSE,
   old_state |-> NoState]
StateChangedData(entity_id, new, old, is_existing) ==
  [entity_id |-> entity_id, new_state |-> new, hasOld |-> is_existing,
   old_state |-> IF is_existing THEN old ELSE NoState]

\* EventBus.fire called from set: snapshot and add_job under the bus lock
\* (atomic here: set holds the state lock and nothing else fires meanwhile)
FireFromSet(event_type, data, setIdx) ==
  LET snap == FireSnapshot(listeners, event_type)
      k == Len(fireLog) + 1
      job(i) == [prio |-> from_event_type(event_type), seq |-> seqNo + i - 1,
                 fn |-> snap[i], fire |-> k, arg |-> NoArg]
  IN /\ fireLog' = Append(fireLog, [type |-> event_type, table |-> listeners])
     /\ smEvents' = Append(smEvents, [fire |-> k, set |-> setIdx] @@ data)
     /\ queue' = queue \cup {job(i) : i \in 1..Len(snap)}
     /\ enqLog' = enqLog \o [i \in 1..Len(snap) |-> job(i)]
     /\ seqNo' = seqNo + Len(snap)

SetLogEntry(raw, entity_id, new_state, attributes, is_existing, old, raised) ==
  [raw |-> raw, entity_id |-> entity_id, state |-> new_state,
   attributes |-> attributes, existed |-> is_existing, old |-> old,
   raised |-> raised, now |-> clock]

\* set without the "same state and attributes" short cut
SetNoCompare(raw, new_state, attributes) ==
  /\ Len(setLog) < MaxSets
  /\ busLock = NoLock
  /\ LET entity_id == Lower(raw)
         is_existing == entity_id \in DOMAIN states
         old == IF is_existing THEN states[entity_id] ELSE NoState
         same_state == is_existing /\ old.state = new_state
         raised == ~ENTITY_ID_PATTERN_match(entity_id)
         new == State_init(entity_id, new_state, attributes,
                           IF same_state THEN old.last_changed ELSE None, clock)
     IN /\ setLog' = Append(setLog, SetLogEntry(raw, entity_id, new_state, attributes, is_existing, old, raised))
        /\ IF ~raised
           THEN /\ states' = [e \in DOMAIN states \cup {entity_id} |->
                                IF e = entity_id THEN new ELSE states[e]]
                /\ FireFromSet(EVENT_STATE_CHANGED,
                     StateChangedData(entity_id, new, old, is_existing), Len(setLog) + 1)
           ELSE UNCHANGED <<states, fireLog, smEvents, queue, enqLog, seqNo>>
  /\ UNCHANGED <<listeners, busLock, cpc, csnap, cpos, cfire, wpc, wjob,
                 runFlag, deqLog, execLog, nListens, onceDone, clock>>
  /\ UNCHANGED extVars

\* set that never carries last_changed forward
SetResetLastChanged(raw, new_state, attributes) ==
  /\ Len(setLog) < MaxSets
  /\ busLock = NoLock
  /\ LET entity_id == Lower(raw)
         is_existing == entity_id \in DOMAIN states
         old == IF is_existing THEN states[entity_id] ELSE NoState
         same_state == is_existing /\ old.state = new_state
         same_attr == is_existing /\ old.attributes = attributes
         changes == ~(same_state /\ same_attr)
         raised == changes /\ ~ENTITY_ID_PATTERN_match(entity_id)
         new == State_init(entity_id, new_state, attributes, None, clock)
     IN /\ setLog' = Append(setLog, SetLogEntry(raw, entity_id, new_state, attributes, is_existing, old, raised))
        /\ IF changes /\ ~raised
           THEN /\ states' = [e \in DOMAIN states \cup {entity_id} |->
                                IF e = entity_id THEN new ELSE states[e]]
                /\ FireFromSet(EVENT_STATE_CHANGED,
                     StateChangedData(entity_id, new, old, is_existing), Len(setLog) + 1)
           ELSE UNCHANGED <<states, fireLog, smEvents, queue, enqLog, seqNo>>
  /\ UNCHANGED <<listeners, busLock, cpc, csnap, cpos, cfire, wpc, wjob,
                 runFlag, deqLog, execLog, nListens, onceDone, clock>>
  /\ UNCHANGED extVars

\* StateMachine.set: lowercase the id; under the state lock compare with the
\* stored State; if new or different build a State (raising
\* InvalidEntityFormatError on a bad id), store it and fire state_changed.
Set(raw, new_state, attributes) ==
  /\ Len(setLog) < MaxSets
  /\ busLock = NoLock
  /\ LET entity_id == Lower(raw)
         is_existing == entity_id \in DOMAIN states
         old == IF is_existing THEN states[entity_id] ELSE NoState
         same_state == is_existing /\ old.state = new_state
         same_attr == is_existing /\ old.attributes = attributes
         changes == ~(same_state /\ same_attr)
         raised == changes /\ ~ENTITY_ID_PATTERN_match(entity_id)
         new == State_init(entity_id, new_state, attributes,
                           IF same_state THEN old.last_changed ELSE None, clock)
     IN /\ setLog' = Append(setLog, SetLogEntry(raw, entity_id, new_state, attributes, is_existing, old, raised))
        /\ IF changes /\ ~raised
           THEN /\ states' = [e \in DOMAIN states \cup {entity_id} |->
                                IF e = entity_id THEN new ELSE states[e]]
                /\ FireFromSet(EVENT_STATE_CHANGED,
                     StateChangedData(entity_id, new, old, is_existing), Len(setLog) + 1)
           ELSE UNCHANGED <<states, fireLog, smEvents, queue, enqLog, seqNo>>
  /\ UNCHANGED <<listeners, busLock, cpc, csnap, cpos, cfire, wpc, wjob,
                 runFlag, deqLog, execLog, nListens, onceDone, clock>>
  /\ UNCHANGED extVars

\* remove that reports success but leaves the entry in place
RemoveKeepEntry(raw) ==
  /\ removeRet' = IF Lower(raw) \in DOMAIN states THEN "true" ELSE "false"
  /\ UNCHANGED <<listeners, busLock, cpc, csnap, cpos, cfire, queue, seqNo,
                 wpc, wjob, runFlag, fireLog, enqLog, deqLog, execLog,
                 nListens, onceDone, clock, setLog, smEvents, states>>
  /\ UNCHANGED otherVarsRem

\* StateMachine.remove: under the state lock,
\* self._states.pop(entity_id, None) is not None
Remove(raw) ==
  /\ states' = [e \in DOMAIN states \ {Lower(raw)} |-> states[e]]
  /\ removeRet' = IF Lower(raw) \in DOMAIN states THEN "true" ELSE "false"
  /\ UNCHANGED <<listeners, busLock, cpc, csnap, cpos, cfire, queue, seqNo,
                 wpc, wjob, runFlag, fireLog, enqLog, deqLog, execLog,
                 nListens, onceDone, clock, setLog, smEvents>>
  /\ UNCHANGED otherVarsRem

\* the wall clock advances
Tick ==
  /\ clock < MaxTime
  /\ clock' = clock + 1
  /\ UNCHANGED <<listeners, busLock, cpc, csnap, cpos, cfire, queue, seqNo,
                 wpc, wjob, runFlag, fireLog, enqLog, deqLog, execLog,
                 nListens, onceDone, states, setLog, smEvents>>
  /\ UNCHANGED extVars

\* ---------------------------------------------------------------------
\* StateMachine storage by object identity: each State is an object in
\* heap, _states maps an entity id to the object stored for it, and a
\* reader holds the objects a read handed back.
\* ---------------------------------------------------------------------
MaxObjs == 3
HeapEntity == "light.kitchen"
otherVarsHeap == <<busVars, smVars, svcVars, idVars, ptVars, tmVars, tcVars, stopVars, haltVars, rtVars, remVars, dataVars>>
NewObj == Cardinality(DOMAIN heap) + 1

\* StateMachine.set(HeapEntity, new_state), first part, under the lock:
\* old_state = self._states.get(entity_id), then the comparison of
\* old_state.state and old_state.attributes with the arguments
HeapSetCompare(new_state) ==
  /\ setter.pc = "idle"
  /\ LET is_existing == HeapEntity \in DOMAIN smRefs
         same == is_existing /\ heap[smRefs[HeapEntity]].state = new_state
                             /\ heap[smRefs[HeapEntity]].attributes = NoAttrs
     IN setter' = [pc |-> "store", val |-> new_state, same |-> same]
  /\ UNCHANGED <<heap, smRefs, held, shadow, reader, entries>>
  /\ UNCHANGED otherVarsHeap

\* StateMachine.set, second part, still under the lock: unless same_state
\* and same_attr, build State(entity_id, new_state, attributes, ...) (a new
\* object whose __init__ stamps last_updated = now) and store it; then
\* release the lock
HeapSetStore ==
  /\ setter.pc = "store"
  /\ NewObj <= MaxObjs
  /\ LET obj == [state |-> setter.val, attributes |-> NoAttrs, last_updated |-> clock]
     IN IF ~setter.same
        THEN /\ heap' = heap @@ (NewObj :> obj)
             /\ smRefs' = [e \in DOMAIN smRefs \cup {HeapEntity} |->
                             IF e = HeapEntity THEN NewObj ELSE smRefs[e]]
             /\ shadow' = [e \in DOMAIN shadow \cup {HeapEntity} |->
                             IF e = HeapEntity THEN obj ELSE shadow[e]]
             /\ entries' = IF HeapEntity \in DOMAIN smRefs THEN entries
                           ELSE Append(entries, "live")
        ELSE UNCHANGED <<heap, smRefs, shadow, entries>>
  /\ setter' = NoSetter
  /\ UNCHANGED <<held, reader>>
  /\ UNCHANGED otherVarsHeap

\* StateMachine.get, first part (no lock): state =
\* self._states.get(entity_id.lower()); a found State is copied next
HeapGet ==
  /\ reader.pc = "idle"
  /\ HeapEntity \in DOMAIN smRefs
  /\ reader' = [NoReader EXCEPT !.pc = "read", !.mode = "get",
                                !.obj = smRefs[HeapEntity]]
  /\ UNCHANGED <<heap, smRefs, held, shadow, setter, entries>>
  /\ UNCHANGED otherVarsHeap

\* StateMachine.all, first part (no lock): iter(self._states.values()),
\* which records the dict's size (di_used), its position in the entries
\* array (di_pos) and the number of values left to yield (len)
HeapAll ==
  /\ reader.pc = "idle"
  /\ reader' = [NoReader EXCEPT !.pc = "iter", !.mode = "all",
                                !.used = Cardinality(DOMAIN smRefs), !.pos = 1,
                                !.len = Cardinality(DOMAIN smRefs)]
  /\ UNCHANGED <<heap, smRefs, held, shadow, setter, entries>>
  /\ UNCHANGED otherVarsHeap

\* next() on the values iterator of all() (CPython dictiter_iternextvalue):
\* RuntimeError "dictionary changed size during iteration" when the size
\* differs from di_used; otherwise the first live slot at or after di_pos:
\* none ends the iteration and the list of copies is returned; one found
\* when len is 0 raises RuntimeError "dictionary keys changed during
\* iteration"; else its value (one entity here) is yielded, to be copied.
\* On a raise all() propagates it and its copies are dropped. The dict
\* never holds more than 5 entries here, so it is not resized.
HeapAllNext ==
  /\ reader.pc = "iter"
  /\ LET live == {k \in reader.pos..Len(entries) : entries[k] = "live"}
         i == CHOOSE k \in live : \A m \in live : k <= m
     IN IF Cardinality(DOMAIN smRefs) # reader.used
        THEN reader' = [NoReader EXCEPT !.out = "raised"]
        ELSE IF live = {}
        THEN reader' = [NoReader EXCEPT !.out = "ok"]
        ELSE IF reader.len = 0
        THEN reader' = [NoReader EXCEPT !.out = "raised"]
        ELSE reader' = [reader EXCEPT !.pc = "read", !.obj = smRefs[HeapEntity],
                                      !.pos = i + 1, !.len = @ - 1]
  /\ held' = IF reader'.out = "ok"
             THEN held \cup {reader.done[k] : k \in DOMAIN reader.done} ELSE held
  /\ UNCHANGED <<heap, smRefs, shadow, setter, entries>>
  /\ UNCHANGED otherVarsHeap

\* state.copy(), first part: the arguments self.entity_id, self.state,
\* dict(self.attributes) and self.last_changed are read from the object,
\* which may have been replaced in _states meanwhile
HeapCopyRead ==
  /\ reader.pc = "read"
  /\ reader' = [reader EXCEPT !.pc = "init",
                  !.fields = [state |-> heap[reader.obj].state,
                              attributes |-> heap[reader.obj].attributes,
                              last_updated |-> None]]
  /\ UNCHANGED <<heap, smRefs, held, shadow, setter, entries>>
  /\ UNCHANGED otherVarsHeap

\* state.copy(), second part: State.__init__ on the read fields, a new
\* object with last_updated = now; get returns it, all appends it to its
\* list and goes on iterating
HeapCopyInit ==
  /\ reader.pc = "init"
  /\ NewObj <= MaxObjs
  /\ heap' = heap @@ (NewObj :> [reader.fields EXCEPT !.last_updated = clock])
  /\ IF reader.mode = "get"
     THEN /\ held' = held \cup {NewObj}
          /\ reader' = [NoReader EXCEPT !.out = "ok"]
     ELSE /\ reader' = [reader EXCEPT !.pc = "iter", !.done = Append(@, NewObj)]
          /\ UNCHANGED held
  /\ UNCHANGED <<smRefs, shadow, setter, entries>>
  /\ UNCHANGED otherVarsHeap

\* StateMachine.remove(HeapEntity): under the lock, pop the entry (its
\* slot of the entries array becomes a dummy); the State object lives on
HeapRemove ==
  /\ setter.pc = "idle"
  /\ smRefs' = [e \in DOMAIN smRefs \ {HeapEntity} |-> smRefs[e]]
  /\ shadow' = [e \in DOMAIN shadow \ {HeapEntity} |-> shadow[e]]
  /\ entries' = [i \in DOMAIN entries |-> "dummy"]
  /\ UNCHANGED <<heap, held, reader, setter>>
  /\ UNCHANGED otherVarsHeap

\* point_in_time arguments of get_since, in clock ticks
GetSincePoints == 0..(MaxTime + 1)

\* StateMachine.get_since: point_in_time = strip_microseconds(point_in_time);
\* under the lock, the stored State objects themselves whose last_updated
\* is at or after it
HeapGetSince(point_in_time) ==
  /\ setter.pc = "idle"
  /\ LET p == strip_microseconds(point_in_time)
     IN held' = held \cup {smRefs[e] : e \in {k \in DOMAIN smRefs : heap[smRefs[k]].last_updated >= p}}
  /\ UNCHANGED <<heap, smRefs, shadow, reader, setter, entries>>
  /\ UNCHANGED otherVarsHeap

\* the reader assigns the state field of a State it holds
CallerMutate(o, v) ==
  /\ o \in held
  /\ heap' = [heap EXCEPT ![o].state = v]
  /\ UNCHANGED <<smRefs, held, shadow, reader, setter, entries>>
  /\ UNCHANGED otherVarsHeap

NextHeap ==
  \/ \E v \in StateValues : HeapSetCompare(v)
  \/ HeapSetStore
  \/ HeapGet
  \/ HeapAll
  \/ HeapAllNext
  \/ HeapCopyRead
  \/ HeapCopyInit
  \/ HeapRemove
  \/ \E p \in GetSincePoints : HeapGetSince(p)
  \/ \E o \in 1..MaxObjs, v \in StateValues : CallerMutate(o, v)
  \/ Tick

SpecHeap == Init /\ [][NextHeap]_vars

\* ---------------------------------------------------------------------
\* ServiceRegistry: one thread calling services of domain "test"; the
\* registry's _event_to_service_call listens to call_service; handlers run
\* on the workers. Steps of the workers take no time; svNow advances only
\* when every worker is idle on an empty queue or sleeping in a handler
\* and the caller has nothing to do at the current instant.
\* ---------------------------------------------------------------------
SERVICE_CALL_LIMIT == 10
MaxCalls == 2
MaxSvTime == 24
\* handlers: "ping" returns at once, "slow" sleeps longer than the call
\* limit, "boom" raises; "nosvc" is not registered
SlowSleep == SERVICE_CALL_LIMIT + 2
Registered == {"ping", "slow", "boom"}
SvcNames == Registered \cup {"nosvc"}
SvcListener == "svc"
Execute == "execute"
otherVarsSvc == <<smVars, heapVars, idVars, ptVars, tmVars, tcVars, stopVars, haltVars, rtVars, remVars, dataVars>>

\* the service_executed closure created by the call with this id
ExecListener(cid) == "exec" \o ToString(cid)

\* the state after ServiceRegistry.__init__ and register of the handlers
InitSvc ==
  /\ InitBase
  /\ tcIn = NoTrackIn
  /\ listeners = (EVENT_CALL_SERVICE :> <<SvcListener>>)
  /\ services = Registered

\* EventBus.fire done in one step (the bus lock is held throughout): jobs
\* of MATCH_ALL listeners and of the type's listeners carrying arg (the
\* history variables of the bus part are not kept here)
FireNow(event_type, arg) ==
  LET snap == FireSnapshot(listeners, event_type)
      job(i) == [prio |-> from_event_type(event_type), seq |-> seqNo + i - 1,
                 fn |-> snap[i], fire |-> 0, arg |-> arg]
  IN /\ queue' = queue \cup {job(i) : i \in 1..Len(snap)}
     /\ seqNo' = seqNo + Len(snap)

\* call that does not listen to service_executed before firing
CallListenNoListen(svc, blocking) ==
  /\ scPc = "idle"
  /\ curId < MaxCalls
  /\ curId' = curId + 1
  /\ scCall' = [cid |-> curId + 1, svc |-> svc, blocking |-> blocking, deadline |-> 0]
  /\ scPc' = "fire"
  /\ UNCHANGED busVars
  /\ UNCHANGED <<services, gate, callLog, svNow, wake, svcFires, svcRuns>>
  /\ UNCHANGED otherVarsSvc

\* ServiceRegistry.call, first part: _generate_unique_id (one calling
\* thread, so the increment and the read that follows it are not
\* interleaved with another call), then for a blocking call listen to
\* service_executed with the call's closure
CallListen(svc, blocking) ==
  /\ scPc = "idle"
  /\ curId < MaxCalls
  /\ curId' = curId + 1
  /\ listeners' = IF blocking
                  THEN listen(listeners, EVENT_SERVICE_EXECUTED, ExecListener(curId + 1))
                  ELSE listeners
  /\ scCall' = [cid |-> curId + 1, svc |-> svc, blocking |-> blocking, deadline |-> 0]
  /\ scPc' = "fire"
  /\ UNCHANGED <<busLock, cpc, csnap, cpos, cfire, queue, seqNo, wpc, wjob,
                 runFlag, fireLog, enqLog, deqLog, execLog, nListens, onceDone>>
  /\ UNCHANGED <<services, gate, callLog, svNow, wake, svcFires, svcRuns>>
  /\ UNCHANGED otherVarsSvc

\* ServiceRegistry.call: fire call_service with domain, service and id;
\* a blocking call then waits on executed_event for SERVICE_CALL_LIMIT
CallFire ==
  /\ scPc = "fire"
  /\ FireNow(EVENT_CALL_SERVICE, [svc |-> scCall.svc, cid |-> scCall.cid, now |-> 0])
  /\ IF scCall.blocking
     THEN /\ scPc' = "wait"
          /\ scCall' = [scCall EXCEPT !.deadline = svNow + SERVICE_CALL_LIMIT]
          /\ UNCHANGED callLog
     ELSE /\ scPc' = "idle"
          /\ scCall' = NoCall
          /\ callLog' = Append(callLog, [cid |-> scCall.cid, svc |-> scCall.svc,
                                          blocking |-> FALSE, result |-> "none"])
  /\ UNCHANGED <<listeners, busLock, cpc, csnap, cpos, cfire, wpc, wjob,
                 runFlag, fireLog, enqLog, deqLog, execLog, nListens, onceDone>>
  /\ UNCHANGED <<services, curId, gate, svNow, wake, svcFires, svcRuns>>
  /\ UNCHANGED otherVarsSvc

\* executed_event.wait returned True: call returns True
CallWake ==
  /\ scPc = "wait"
  /\ scCall.cid \in gate
  /\ scPc' = "idle"
  /\ scCall' = NoCall
  /\ callLog' = Append(callLog, [cid |-> scCall.cid, svc |-> scCall.svc,
                                  blocking |-> TRUE, result |-> TRUE])
  /\ UNCHANGED busVars
  /\ UNCHANGED <<services, curId, gate, svNow, wake, svcFires, svcRuns>>
  /\ UNCHANGED otherVarsSvc

\* timeout without removing the closure from the listener table
CallTimeoutKeepListener ==
  /\ scPc = "wait"
  /\ svNow >= scCall.deadline
  /\ scPc' = "idle"
  /\ scCall' = NoCall
  /\ callLog' = Append(callLog, [cid |-> scCall.cid, svc |-> scCall.svc,
                                  blocking |-> TRUE, result |-> FALSE])
  /\ UNCHANGED busVars
  /\ UNCHANGED <<services, curId, gate, svNow, wake, svcFires, svcRuns>>
  /\ UNCHANGED otherVarsSvc

\* executed_event.wait(SERVICE_CALL_LIMIT) returned False (at the deadline
\* a set racing with the timeout may be missed): remove the closure from
\* service_executed and return False
CallTimeout ==
  /\ scPc = "wait"
  /\ svNow >= scCall.deadline
  /\ listeners' = remove_listener(listeners, EVENT_SERVICE_EXECUTED, ExecListener(scCall.cid))
  /\ scPc' = "idle"
  /\ scCall' = NoCall
  /\ callLog' = Append(callLog, [cid |-> scCall.cid, svc |-> scCall.svc,
                                  blocking |-> TRUE, result |-> FALSE])
  /\ UNCHANGED <<busLock, cpc, csnap, cpos, cfire, queue, seqNo, wpc, wjob,
                 runFlag, fireLog, enqLog, deqLog, execLog, nListens, onceDone>>
  /\ UNCHANGED <<services, curId, gate, svNow, wake, svcFires, svcRuns>>
  /\ UNCHANGED otherVarsSvc

\* ServiceRegistry._event_to_service_call: under the registry lock, a
\* registered (domain, service) gets an EVENT_SERVICE job running
\* _execute_service; an unknown one is dropped
RunEventToServiceCall(w) ==
  /\ wpc[w] = "run"
  /\ wjob[w].fn = SvcListener
  /\ LET job == [prio |-> EVENT_SERVICE, seq |-> seqNo, fn |-> Execute,
                 fire |-> 0, arg |-> wjob[w].arg]
     IN IF wjob[w].arg.svc \in services
        THEN /\ queue' = queue \cup {job}
             /\ seqNo' = seqNo + 1
        ELSE UNCHANGED <<queue, seqNo>>
  /\ wpc' = [wpc EXCEPT ![w] = "idle"]
  /\ wjob' = [wjob EXCEPT ![w] = NoJob]
  /\ UNCHANGED <<listeners, busLock, cpc, csnap, cpos, cfire, runFlag,
                 fireLog, enqLog, deqLog, execLog, nListens, onceDone>>
  /\ UNCHANGED svcVars
  /\ UNCHANGED otherVarsSvc

ExecutedArg(cid) == [svc |-> "", cid |-> cid, now |-> 0]

\* _execute_service where a raising handler is followed by the
\* service_executed fire all the same
RunExecuteServiceFireOnRaise(w) ==
  /\ wpc[w] = "run"
  /\ wjob[w].fn = Execute
  /\ LET cid == wjob[w].arg.cid
         svc == wjob[w].arg.svc
     IN IF svc = "slow"
        THEN /\ wpc' = [wpc EXCEPT ![w] = "sleep"]
             /\ wake' = [wake EXCEPT ![w] = svNow + SlowSleep]
             /\ UNCHANGED <<wjob, queue, seqNo, svcFires, svcRuns>>
        ELSE /\ FireNow(EVENT_SERVICE_EXECUTED, ExecutedArg(cid))
             /\ svcFires' = Append(svcFires, cid)
             /\ svcRuns' = Append(svcRuns, [cid |-> cid,
                              outcome |-> IF svc = "boom" THEN "raised" ELSE "ok"])
             /\ wpc' = [wpc EXCEPT ![w] = "idle"]
             /\ wjob' = [wjob EXCEPT ![w] = NoJob]
             /\ UNCHANGED wake
  /\ UNCHANGED <<listeners, busLock, cpc, csnap, cpos, cfire, runFlag,
                 fireLog, enqLog, deqLog, execLog, nListens, onceDone>>
  /\ UNCHANGED <<services, curId, scPc, scCall, gate, callLog, svNow>>
  /\ UNCHANGED otherVarsSvc

\* ServiceRegistry._execute_service run by job_handler: service(call),
\* then fire service_executed with the call's id. "ping" returns at once,
\* "slow" sleeps SlowSleep seconds first, "boom" raises, which job_handler
\* catches, so nothing is fired.
RunExecuteService(w) ==
  /\ wpc[w] = "run"
  /\ wjob[w].fn = Execute
  /\ LET cid == wjob[w].arg.cid
         svc == wjob[w].arg.svc
     IN CASE svc = "slow" ->
               /\ wpc' = [wpc EXCEPT ![w] = "sleep"]
               /\ wake' = [wake EXCEPT ![w] = svNow + SlowSleep]
               /\ UNCHANGED <<wjob, queue, seqNo, svcFires, svcRuns>>
          [] svc = "boom" ->
               /\ svcRuns' = Append(svcRuns, [cid |-> cid, outcome |-> "raised"])
               /\ wpc' = [wpc EXCEPT ![w] = "idle"]
               /\ wjob' = [wjob EXCEPT ![w] = NoJob]
               /\ UNCHANGED <<wake, queue, seqNo, svcFires>>
          [] OTHER ->
               /\ FireNow(EVENT_SERVICE_EXECUTED, ExecutedArg(cid))
               /\ svcFires' = Append(svcFires, cid)
               /\ svcRuns' = Append(svcRuns, [cid |-> cid, outcome |-> "ok"])
               /\ wpc' = [wpc EXCEPT ![w] = "idle"]
               /\ wjob' = [wjob EXCEPT ![w] = NoJob]
               /\ UNCHANGED wake
  /\ UNCHANGED <<listeners, busLock, cpc, csnap, cpos, cfire, runFlag,
                 fireLog, enqLog, deqLog, execLog, nListens, onceDone>>
  /\ UNCHANGED <<services, curId, scPc, scCall, gate, callLog, svNow>>
  /\ UNCHANGED otherVarsSvc

\* the slow handler returns after its sleep: fire service_executed
WakeExecuteService(w) ==
  /\ wpc[w] = "sleep"
  /\ svNow >= wake[w]
  /\ FireNow(EVENT_SERVICE_EXECUTED, ExecutedArg(wjob[w].arg.cid))
  /\ svcFires' = Append(svcFires, wjob[w].arg.cid)
  /\ svcRuns' = Append(svcRuns, [cid |-> wjob[w].arg.cid, outcome |-> "ok"])
  /\ wpc' = [wpc EXCEPT ![w] = "idle"]
  /\ wjob' = [wjob EXCEPT ![w] = NoJob]
  /\ UNCHANGED <<listeners, busLock, cpc, csnap, cpos, cfire, runFlag,
                 fireLog, enqLog, deqLog, execLog, nListens, onceDone>>
  /\ UNCHANGED <<services, curId, scPc, scCall, gate, callLog, svNow, wake>>
  /\ UNCHANGED otherVarsSvc

\* call's service_executed closure: when the event carries its own call
\* id, set executed_event, then remove itself from the bus
RunServiceExecuted(w) ==
  /\ wpc[w] = "run"
  /\ wjob[w].fn \notin {SvcListener, Execute}
  /\ IF wjob[w].fn = ExecListener(wjob[w].arg.cid)
     THEN /\ gate' = gate \cup {wjob[w].arg.cid}
          /\ wpc' = [wpc EXCEPT ![w] = "remove"]
          /\ UNCHANGED wjob
     ELSE /\ wpc' = [wpc EXCEPT ![w] = "idle"]
          /\ wjob' = [wjob EXCEPT ![w] = NoJob]
          /\ UNCHANGED gate
  /\ UNCHANGED <<listeners, busLock, cpc, csnap, cpos, cfire, queue, seqNo,
                 runFlag, fireLog, enqLog, deqLog, execLog, nListens, onceDone>>
  /\ UNCHANGED <<services, curId, scPc, scCall, callLog, svNow, wake,
                 svcFires, svcRuns>>
  /\ UNCHANGED otherVarsSvc

\* ... self._bus.remove_listener(EVENT_SERVICE_EXECUTED, service_executed)
RemoveServiceExecuted(w) ==
  /\ wpc[w] = "remove"
  /\ listeners' = remove_listener(listeners, EVENT_SERVICE_EXECUTED, wjob[w].fn)
  /\ wpc' = [wpc EXCEPT ![w] = "idle"]
  /\ wjob' = [wjob EXCEPT ![w] = NoJob]
  /\ UNCHANGED <<busLock, cpc, csnap, cpos, cfire, queue, seqNo, runFlag,
                 fireLog, enqLog, deqLog, execLog, nListens, onceDone>>
  /\ UNCHANGED svcVars
  /\ UNCHANGED otherVarsSvc

\* a worker takes the next job (the dequeue history is not kept here)
SvcDequeue(w) ==
  /\ wpc[w] = "idle"
  /\ queue # {}
  /\ LET job == NextJob(queue) IN
     /\ queue' = queue \ {job}
     /\ wjob' = [wjob EXCEPT ![w] = job]
     /\ wpc' = [wpc EXCEPT ![w] = "run"]
  /\ UNCHANGED <<listeners, busLock, cpc, csnap, cpos, cfire, seqNo, runFlag,
                 fireLog, enqLog, deqLog, execLog, nListens, onceDone>>
  /\ UNCHANGED svcVars
  /\ UNCHANGED otherVarsSvc

\* one second passes; instantaneous steps come first
SvTick ==
  /\ svNow < MaxSvTime
  /\ \A w \in Workers : wpc[w] \in {"idle", "sleep"}
  /\ queue = {} \/ \A w \in Workers : wpc[w] = "sleep"
  /\ \A w \in Workers : wpc[w] = "sleep" => wake[w] > svNow
  /\ scPc \in {"idle", "wait"}
  /\ scPc = "wait" => scCall.cid \notin gate /\ svNow < scCall.deadline
  /\ svNow' = svNow + 1
  /\ UNCHANGED busVars
  /\ UNCHANGED <<services, curId, scPc, scCall, gate, callLog, wake,
                 svcFires, svcRuns>>
  /\ UNCHANGED otherVarsSvc

NextSvc ==
  \/ \E svc \in SvcNames : CallListen(svc, TRUE)
  \/ CallFire
  \/ CallWake
  \/ CallTimeout
  \/ \E w \in Workers : SvcDequeue(w)
  \/ \E w \in Workers : RunEventToServiceCall(w)
  \/ \E w \in Workers : RunExecuteService(w)
  \/ \E w \in Workers : WakeExecuteService(w)
  \/ \E w \in Workers : RunServiceExecuted(w)
  \/ \E w \in Workers : RemoveServiceExecuted(w)
  \/ SvTick

SpecSvc == InitSvc /\ [][NextSvc]_vars

\* ---------------------------------------------------------------------
\* ServiceRegistry._generate_unique_id called by several threads:
\*   self._cur_id += 1                       (load, add, store)
\*   return "{}-{}".format(id(self), self._cur_id)   (load again)
\* No lock is held; a thread may be preempted between any two of these.
\* ---------------------------------------------------------------------
MaxIds == 3
otherVarsId == <<busVars, smVars, heapVars, svcVars, ptVars, tmVars, tcVars, stopVars, haltVars, rtVars, remVars, dataVars>>

\* call: _generate_unique_id starts by loading self._cur_id
GenLoad(t, r) ==
  /\ gpc[t] = "idle"
  /\ Len(genIds) + Cardinality({u \in IdThreads : gpc[u] # "idle"}) < MaxIds
  /\ gtmp' = [gtmp EXCEPT ![t] = regCur[r]]
  /\ greg' = [greg EXCEPT ![t] = r]
  /\ gpc' = [gpc EXCEPT ![t] = "store"]
  /\ UNCHANGED <<regCur, genIds>>
  /\ UNCHANGED otherVarsId

\* ... stores the incremented value
GenStore(t) ==
  /\ gpc[t] = "store"
  /\ regCur' = [regCur EXCEPT ![greg[t]] = gtmp[t] + 1]
  /\ gpc' = [gpc EXCEPT ![t] = "format"]
  /\ UNCHANGED <<greg, gtmp, genIds>>
  /\ UNCHANGED otherVarsId

\* ... and formats the id from id(self) and a new load of self._cur_id
GenFormat(t) ==
  /\ gpc[t] = "format"
  /\ genIds' = Append(genIds, <<greg[t], regCur[greg[t]]>>)
  /\ gpc' = [gpc EXCEPT ![t] = "idle"]
  /\ greg' = [greg EXCEPT ![t] = NoRegistry]
  /\ gtmp' = [gtmp EXCEPT ![t] = 0]
  /\ UNCHANGED regCur
  /\ UNCHANGED otherVarsId

NextIdGen ==
  \/ \E t \in IdThreads, r \in Registries : GenLoad(t, r)
  \/ \E t \in IdThreads : GenStore(t)
  \/ \E t \in IdThreads : GenFormat(t)

SpecIdGen == Init /\ [][NextIdGen]_vars

\* ---------------------------------------------------------------------
\* HomeAssistant.track_point_in_time(action, PtPoint): the wrapper
\* point_in_time_listener is registered on time_changed; time_changed
\* events carry now = 0, 1, 2, ... and their jobs run on the workers.
\* ---------------------------------------------------------------------
MaxPtFires == 3
PtPoint == 1
PitListener == "pit"
otherVarsPt == <<smVars, heapVars, svcVars, idVars, tmVars, tcVars, stopVars, haltVars, rtVars, remVars, dataVars>>

\* the state right after track_point_in_time(action, PtPoint)
InitPt ==
  /\ InitBase
  /\ tcIn = NoTrackIn
  /\ listeners = (EVENT_TIME_CHANGED :> <<PitListener>>)
  /\ services = {}

\* a time_changed event with {now: ptClock}
PtFire ==
  /\ ptClock < MaxPtFires
  /\ FireNow(EVENT_TIME_CHANGED, [svc |-> "", cid |-> 0, now |-> ptClock])
  /\ ptClock' = ptClock + 1
  /\ UNCHANGED <<listeners, busLock, cpc, csnap, cpos, cfire, wpc, wjob,
                 runFlag, fireLog, enqLog, deqLog, execLog, nListens, onceDone>>
  /\ UNCHANGED <<ptRun, ptCalls>>
  /\ UNCHANGED otherVarsPt

\* point_in_time_listener: if now >= point_in_time and
\* not hasattr(point_in_time_listener, 'run')
PitCheck(w) ==
  /\ wpc[w] = "run"
  /\ wjob[w].fn = PitListener
  /\ IF wjob[w].arg.now >= PtPoint /\ ~ptRun
     THEN /\ wpc' = [wpc EXCEPT ![w] = "set"]
          /\ UNCHANGED wjob
     ELSE /\ wpc' = [wpc EXCEPT ![w] = "idle"]
          /\ wjob' = [wjob EXCEPT ![w] = NoJob]
  /\ UNCHANGED <<listeners, busLock, cpc, csnap, cpos, cfire, queue, seqNo,
                 runFlag, fireLog, enqLog, deqLog, execLog, nListens, onceDone>>
  /\ UNCHANGED ptVars
  /\ UNCHANGED otherVarsPt

\* point_in_time_listener.run = True
PitSet(w) ==
  /\ wpc[w] = "set"
  /\ ptRun' = TRUE
  /\ wpc' = [wpc EXCEPT ![w] = "remove"]
  /\ UNCHANGED <<listeners, busLock, cpc, csnap, cpos, cfire, queue, seqNo,
                 wjob, runFlag, fireLog, enqLog, deqLog, execLog, nListens, onceDone>>
  /\ UNCHANGED <<ptClock, ptCalls>>
  /\ UNCHANGED otherVarsPt

\* self.bus.remove_listener(EVENT_TIME_CHANGED, point_in_time_listener)
PitRemove(w) ==
  /\ wpc[w] = "remove"
  /\ listeners' = remove_listener(listeners, EVENT_TIME_CHANGED, PitListener)
  /\ wpc' = [wpc EXCEPT ![w] = "invoke"]
  /\ UNCHANGED <<busLock, cpc, csnap, cpos, cfire, queue, seqNo, wjob,
                 runFlag, fireLog, enqLog, deqLog, execLog, nListens, onceDone>>
  /\ UNCHANGED ptVars
  /\ UNCHANGED otherVarsPt

\* action(now)
PitInvoke(w) ==
  /\ wpc[w] = "invoke"
  /\ ptCalls' = Append(ptCalls, wjob[w].arg.now)
  /\ wpc' = [wpc EXCEPT ![w] = "idle"]
  /\ wjob' = [wjob EXCEPT ![w] = NoJob]
  /\ UNCHANGED <<listeners, busLock, cpc, csnap, cpos, cfire, queue, seqNo,
                 runFlag, fireLog, enqLog, deqLog, execLog, nListens, onceDone>>
  /\ UNCHANGED <<ptRun, ptClock>>
  /\ UNCHANGED otherVarsPt

NextPt ==
  \/ PtFire
  \/ \E w \in Workers : SvcDequeue(w)
  \/ \E w \in Workers : PitCheck(w)
  \/ \E w \in Workers : PitSet(w)
  \/ \E w \in Workers : PitRemove(w)
  \/ \E w \in Workers : PitInvoke(w)

SpecPt == InitPt /\ [][NextPt]_vars

\* ---------------------------------------------------------------------
\* Timer.run: the loop that fires time_changed. Time is counted in tenths
\* of a second; time.sleep(slp) returns after slp plus an overshoot of up
\* to MaxOvershoot tenths, and time also passes between iterations.
\* ---------------------------------------------------------------------
TIMER_INTERVAL == 1
TenthsPerSecond == 10
MaxOvershoot == 6
MaxTmTime == 12
MaxTmFires == 3
\* Timer(hass) uses TIMER_INTERVAL; Timer(hass, 2) passes the 60 % interval
\* assertion as well
Intervals == {TIMER_INTERVAL, 2}
otherVarsTm == <<busVars, smVars, heapVars, svcVars, idVars, ptVars, tcVars, stopVars, haltVars, rtVars, remVars, dataVars>>

\* now.second and now.microsecond (in tenths) of a clock reading
NowSecond(t) == (t \div TenthsPerSecond) % 60
NowFraction(t) == t % TenthsPerSecond

\* Timer.__init__(hass, interval) followed by the thread starting run():
\* last_fired_on_second = -1
TmStart(interval) ==
  /\ tmPc = "new"
  /\ 60 % interval = 0
  /\ tmInterval' = interval
  /\ tmLast' = -1
  /\ tmPc' = "check"
  /\ UNCHANGED <<tNow, tmWake, tmFires>>
  /\ UNCHANGED otherVarsTm

\* time passes before the thread reads the clock
TmAdvance ==
  /\ tmPc = "check"
  /\ tNow < MaxTmTime
  /\ tNow' = tNow + 1
  /\ UNCHANGED <<tmPc, tmInterval, tmLast, tmWake, tmFires>>
  /\ UNCHANGED otherVarsTm

\* one loop iteration up to the sleep: now = calc_now(); on an aligned
\* second not fired yet, fire at once; otherwise sleep
\* interval - now.second % interval + .5 - now.microsecond / 10^6 seconds
TmCheck(overshoot) ==
  /\ tmPc = "check"
  /\ Len(tmFires) < MaxTmFires
  /\ LET sec == NowSecond(tNow)
         slp == (tmInterval - (sec % tmInterval)) * TenthsPerSecond
                + TenthsPerSecond \div 2 - NowFraction(tNow)
     IN IF sec % tmInterval # 0 \/ sec = tmLast
        THEN /\ tmPc' = "sleep"
             /\ tmWake' = [at |-> tNow + slp + overshoot, overshoot |-> overshoot]
             /\ UNCHANGED <<tmLast, tmFires>>
        ELSE /\ overshoot = 0
             /\ tmLast' = sec
             /\ tmFires' = Append(tmFires, [now |-> tNow, overshoot |-> -1])
             /\ UNCHANGED <<tmPc, tmWake>>
  /\ UNCHANGED <<tmInterval, tNow>>
  /\ UNCHANGED otherVarsTm

\* time.sleep returns; now = calc_now(); last_fired_on_second = now.second;
\* fire time_changed with now
TmWake ==
  /\ tmPc = "sleep"
  /\ tNow' = tmWake.at
  /\ tmLast' = NowSecond(tmWake.at)
  /\ tmFires' = Append(tmFires, [now |-> tmWake.at, overshoot |-> tmWake.overshoot])
  /\ tmPc' = "check"
  /\ UNCHANGED <<tmInterval, tmWake>>
  /\ UNCHANGED otherVarsTm

NextTimer ==
  \/ \E i \in Intervals : TmStart(i)
  \/ TmAdvance
  \/ \E o \in 0..MaxOvershoot : TmCheck(o)
  \/ TmWake

SpecTimer == Init /\ [][NextTimer]_vars

\* ---------------------------------------------------------------------
\* A raising listener: "x" has the listeners [Raiser, "p2"] and MATCH_ALL
\* has ["p1"]; threads fire "x" and the workers run the jobs. The worker
\* threads keep taking jobs and a firing thread keeps enqueuing (weak
\* fairness).
\* ---------------------------------------------------------------------
InitExc ==
  /\ InitBase
  /\ tcIn = NoTrackIn
  /\ listeners = (MATCH_ALL :> <<"p1">>) @@ ("x" :> <<Raiser, "p2">>)
  /\ services = {}

ExcWorker(w) ==
  \/ Dequeue(w)
  \/ wjob[w].fn # Raiser /\ RunListener(w)
  \/ RunRaising(w)

NextExc ==
  \/ \E c \in Callers : FireBegin(c, "x")
  \/ \E c \in Callers : FireEnq(c)
  \/ \E w \in Workers : ExcWorker(w)

SpecExc ==
  /\ InitExc /\ [][NextExc]_vars
  /\ \A w \in Workers : WF_vars(ExcWorker(w))
  /\ \A c \in Callers : WF_vars(FireEnq(c))

\* ---------------------------------------------------------------------
\* StateMachine.track_change and the state_listener it registers, applied
\* to one state_changed event as set fires it (lowercase entity_id,
\* new_state, old_state unless the entity is new).
\* ---------------------------------------------------------------------
otherVarsTc == <<busVars, smVars, heapVars, svcVars, idVars, ptVars, tmVars, stopVars, haltVars, rtVars, remVars, dataVars>>

\* the matching pattern: MATCH_ALL, or a tuple of values
MatchAllPattern == [all |-> TRUE, t |-> << >>]

\* _process_match_param where None gives (None,) instead of MATCH_ALL
process_match_param_NoneExact(parameter) ==
  IF parameter.kind = "str" /\ parameter.v[1] = PyStr(MATCH_ALL)
  THEN MatchAllPattern
  ELSE IF parameter.kind = "none" THEN [all |-> FALSE, t |-> <<PyNone>>]
  ELSE [all |-> FALSE, t |-> parameter.v]

\* _process_match_param: None or MATCH_ALL -> MATCH_ALL; a str (or other
\* non-iterable) -> (parameter,); an iterable -> tuple(parameter)
process_match_param(parameter) ==
  IF parameter.kind = "none" \/ (parameter.kind = "str" /\ parameter.v[1] = PyStr(MATCH_ALL))
  THEN MatchAllPattern
  ELSE [all |-> FALSE, t |-> parameter.v]

\* _matcher: MATCH_ALL == pattern or subject in pattern
matcher(subject, pattern) ==
  pattern.all \/ \E i \in 1..Len(pattern.t) : pattern.t[i] = subject

\* track_change: entity_ids lowercased into a tuple
NormalizeIds(entity_ids) == [i \in 1..Len(entity_ids.v) |-> Lower(entity_ids.v[i])]

\* state_listener(event) for track_change(entity_ids, action, from_state,
\* to_state): TRUE when it calls action
state_listener(in) ==
  LET ids == NormalizeIds(in.ids)
      from_state == process_match_param(in.from)
      to_state == process_match_param(in.to)
      old_state == IF in.hasOld THEN PyStr(in.old) ELSE PyNone
  IN /\ \E i \in 1..Len(ids) : ids[i] = in.entity
     /\ matcher(old_state, from_state)
     /\ matcher(PyStr(in.new), to_state)

TcIds == {<<"a", ".", "a">>, <<"a", ".", "a", "a">>}
TcIdArgs == {ArgStr(<<"A", ".", "a">>), ArgList(<<<<"a", ".", "a", "a">>>>),
             ArgList(<<<<"a", ".", "a", "a">>, <<"A", ".", "a">>>>)}
TcMatchArgs == {ArgNone, ArgStr(PyStr(MATCH_ALL)), ArgStr(PyStr("on")),
                ArgList(<<PyStr("on"), PyStr("off")>>), ArgList(<<PyNone>>),
                ArgList(<< >>)}
TrackInputs ==
  [ids : TcIdArgs, from : TcMatchArgs, to : TcMatchArgs, entity : TcIds,
   hasOld : BOOLEAN, old : StateValues, new : StateValues]

InitTrack ==
  /\ InitBase
  /\ listeners = [k \in {} |-> << >>]
  /\ services = {}
  /\ tcIn \in TrackInputs

\* the state_changed event reaches state_listener
TrackApply ==
  /\ tcOut = "none"
  /\ hassPc = "new"
  /\ timerPc = "none"
  /\ stopEvent = FALSE
  /\ drainedAtStop = FALSE
  /\ tcOut' = IF state_listener(tcIn) THEN "called" ELSE "ignored"
  /\ UNCHANGED tcIn
  /\ UNCHANGED otherVarsTc

NextTrack == TrackApply

SpecTrack == InitTrack /\ [][NextTrack]_vars

\* ---------------------------------------------------------------------
\* HomeAssistant.start / stop with the Timer thread. A component has a
\* homeassistant_stop listener that fires a follow-up event YType, whose
\* listener does some work, and another one that just does work. Nothing listens to time_changed, so the
\* Timer's fires enqueue no job. Every thread is weakly fair.
\* ---------------------------------------------------------------------
TStart == "timer_start"
TStop == "timer_stop"
StopListener == "on_stop"
YType == "y"
YListener == "on_y"
\* a second component's homeassistant_stop listener doing plain work
StopWork == "on_stop_work"
WorkListeners == {YListener, StopWork}
otherVarsStop == <<smVars, heapVars, svcVars, idVars, ptVars, tmVars, tcVars, haltVars, rtVars, remVars, dataVars>>

InitStop ==
  /\ InitBase
  /\ tcIn = NoTrackIn
  /\ listeners = (EVENT_HOMEASSISTANT_STOP :> <<StopListener, StopWork>>) @@ (YType :> <<YListener>>)
  /\ services = {}

\* HomeAssistant.start: Timer(self) listens once to homeassistant_start
\* (to start its thread), then homeassistant_start is fired
HassStart ==
  /\ hassPc = "new"
  /\ LET tbl == listen(listeners, EVENT_HOMEASSISTANT_START, TStart)
         job == [prio |-> from_event_type(EVENT_HOMEASSISTANT_START), seq |-> seqNo,
                 fn |-> TStart, fire |-> 0, arg |-> NoArg]
     IN /\ listeners' = tbl
        /\ queue' = queue \cup {job}
        /\ seqNo' = seqNo + 1
  /\ hassPc' = "started"
  /\ timerPc' = "created"
  /\ UNCHANGED <<busLock, cpc, csnap, cpos, cfire, wpc, wjob, runFlag,
                 fireLog, enqLog, deqLog, execLog, nListens, onceDone>>
  /\ UNCHANGED <<stopEvent, drainedAtStop>>
  /\ UNCHANGED otherVarsStop

\* HomeAssistant.stop: self.bus.fire(EVENT_HOMEASSISTANT_STOP)
HassStopFire ==
  /\ hassPc = "started"
  /\ FireNow(EVENT_HOMEASSISTANT_STOP, NoArg)
  /\ hassPc' = "blocking"
  /\ UNCHANGED <<listeners, busLock, cpc, csnap, cpos, cfire, wpc, wjob,
                 runFlag, fireLog, enqLog, deqLog, execLog, nListens, onceDone>>
  /\ UNCHANGED <<timerPc, stopEvent, drainedAtStop>>
  /\ UNCHANGED otherVarsStop

\* self.pool.block_till_done() returns once the queue is empty and no
\* worker runs a job; then self.pool.stop()
HassPoolStop ==
  /\ hassPc = "blocking"
  /\ queue = {}
  /\ \A w \in Workers : wpc[w] = "idle"
  /\ drainedAtStop' = (queue = {} /\ \A w \in Workers : wpc[w] = "idle")
  /\ hassPc' = "stopped"
  /\ UNCHANGED busVars
  /\ UNCHANGED <<timerPc, stopEvent>>
  /\ UNCHANGED otherVarsStop

\* worker running the one-time homeassistant_start listener of Timer:
\* it removes itself and calls self.start(), which starts the thread
RunTimerStart(w) ==
  /\ wpc[w] = "run"
  /\ wjob[w].fn = TStart
  /\ listeners' = remove_listener(listeners, EVENT_HOMEASSISTANT_START, TStart)
  /\ timerPc' = "run"
  /\ wpc' = [wpc EXCEPT ![w] = "idle"]
  /\ wjob' = [wjob EXCEPT ![w] = NoJob]
  /\ UNCHANGED <<busLock, cpc, csnap, cpos, cfire, queue, seqNo, runFlag,
                 fireLog, enqLog, deqLog, execLog, nListens, onceDone>>
  /\ UNCHANGED <<hassPc, stopEvent, drainedAtStop>>
  /\ UNCHANGED otherVarsStop

\* the component's homeassistant_stop listener fires YType
RunStopListener(w) ==
  /\ wpc[w] = "run"
  /\ wjob[w].fn = StopListener
  /\ FireNow(YType, NoArg)
  /\ wpc' = [wpc EXCEPT ![w] = "idle"]
  /\ wjob' = [wjob EXCEPT ![w] = NoJob]
  /\ UNCHANGED <<listeners, busLock, cpc, csnap, cpos, cfire, runFlag,
                 fireLog, enqLog, deqLog, execLog, nListens, onceDone>>
  /\ UNCHANGED stopVars
  /\ UNCHANGED otherVarsStop

\* the YType listener or the plain homeassistant_stop listener runs
RunWorkListener(w) ==
  /\ wpc[w] = "run"
  /\ wjob[w].fn \in WorkListeners
  /\ execLog' = execLog (+) SetToBag({[fn |-> wjob[w].fn, fire |-> 0]})
  /\ wpc' = [wpc EXCEPT ![w] = "idle"]
  /\ wjob' = [wjob EXCEPT ![w] = NoJob]
  /\ UNCHANGED <<listeners, busLock, cpc, csnap, cpos, cfire, queue, seqNo,
                 runFlag, fireLog, enqLog, deqLog, nListens, onceDone>>
  /\ UNCHANGED stopVars
  /\ UNCHANGED otherVarsStop

\* the Timer's one-time homeassistant_stop listener: removes itself and
\* sets _stop_event
RunTimerStop(w) ==
  /\ wpc[w] = "run"
  /\ wjob[w].fn = TStop
  /\ listeners' = remove_listener(listeners, EVENT_HOMEASSISTANT_STOP, TStop)
  /\ stopEvent' = TRUE
  /\ wpc' = [wpc EXCEPT ![w] = "idle"]
  /\ wjob' = [wjob EXCEPT ![w] = NoJob]
  /\ UNCHANGED <<busLock, cpc, csnap, cpos, cfire, queue, seqNo, runFlag,
                 fireLog, enqLog, deqLog, execLog, nListens, onceDone>>
  /\ UNCHANGED <<hassPc, timerPc, drainedAtStop>>
  /\ UNCHANGED otherVarsStop

\* Timer.run: self.hass.bus.listen_once(EVENT_HOMEASSISTANT_STOP, ...)
TimerRegister ==
  /\ timerPc = "run"
  /\ listeners' = listen(listeners, EVENT_HOMEASSISTANT_STOP, TStop)
  /\ timerPc' = "check"
  /\ UNCHANGED <<busLock, cpc, csnap, cpos, cfire, queue, seqNo, wpc, wjob,
                 runFlag, fireLog, enqLog, deqLog, execLog, nListens, onceDone>>
  /\ UNCHANGED <<hassPc, stopEvent, drainedAtStop>>
  /\ UNCHANGED otherVarsStop

\* while not self._stop_event.isSet()
TimerCheck ==
  /\ timerPc = "check"
  /\ timerPc' = IF stopEvent THEN "exit" ELSE "fire"
  /\ UNCHANGED busVars
  /\ UNCHANGED <<hassPc, stopEvent, drainedAtStop>>
  /\ UNCHANGED otherVarsStop

\* (sleep and) self.hass.bus.fire(EVENT_TIME_CHANGED, {ATTR_NOW: now}):
\* no listener, so no job
TimerFire ==
  /\ timerPc = "fire"
  /\ timerPc' = "check"
  /\ UNCHANGED busVars
  /\ UNCHANGED <<hassPc, stopEvent, drainedAtStop>>
  /\ UNCHANGED otherVarsStop

StopWorker(w) ==
  \/ SvcDequeue(w)
  \/ RunTimerStart(w)
  \/ RunStopListener(w)
  \/ RunWorkListener(w)
  \/ RunTimerStop(w)

HassThread == HassStart \/ HassStopFire \/ HassPoolStop
TimerThread == TimerRegister \/ TimerCheck \/ TimerFire

NextStop ==
  \/ HassThread
  \/ \E w \in Workers : StopWorker(w)
  \/ TimerThread

SpecStop ==
  /\ InitStop /\ [][NextStop]_vars
  /\ WF_vars(HassThread)
  /\ \A w \in Workers : WF_vars(StopWorker(w))
  /\ WF_vars(TimerThread)

\* ---------------------------------------------------------------------
\* HomeAssistant.block_till_stopped on the main thread, a thread calling
\* the homeassistant.stop service (non-blocking calls), and the workers
\* running _event_to_service_call and the stop handler. The main thread,
\* the caller's fire and each worker are weakly fair; a KeyboardInterrupt
\* may or may not come.
\* ---------------------------------------------------------------------
otherVarsHalt == <<smVars, heapVars, idVars, ptVars, tmVars, tcVars, stopVars, rtVars, remVars, dataVars>>

\* HomeAssistant.__init__: the registry listens to call_service; no
\* service is registered yet
InitHalt ==
  /\ InitBase
  /\ tcIn = NoTrackIn
  /\ listeners = (EVENT_CALL_SERVICE :> <<SvcListener>>)
  /\ services = {}

\* request_shutdown = threading.Event(); self.services.register(DOMAIN,
\* SERVICE_HOMEASSISTANT_STOP, ...), which fires service_registered
BlockRegister ==
  /\ blockPc = "none"
  /\ services' = services \cup {SERVICE_HOMEASSISTANT_STOP}
  /\ FireNow(EVENT_SERVICE_REGISTERED, NoArg)
  /\ blockPc' = "check"
  /\ UNCHANGED <<listeners, busLock, cpc, csnap, cpos, cfire, wpc, wjob,
                 runFlag, fireLog, enqLog, deqLog, execLog, nListens, onceDone>>
  /\ UNCHANGED <<curId, scPc, scCall, gate, callLog, svNow, wake, svcFires, svcRuns>>
  /\ UNCHANGED shutdown
  /\ UNCHANGED otherVarsHalt

\* while loop that never leaves on request_shutdown
BlockCheckIgnoreShutdown ==
  /\ blockPc = "check"
  /\ blockPc' = "sleep"
  /\ UNCHANGED <<busVars, svcVars, shutdown>>
  /\ UNCHANGED otherVarsHalt

\* while not request_shutdown.isSet()
BlockCheck ==
  /\ blockPc = "check"
  /\ blockPc' = IF shutdown THEN "stopfire" ELSE "sleep"
  /\ UNCHANGED <<busVars, svcVars, shutdown>>
  /\ UNCHANGED otherVarsHalt

\* time.sleep(1) returns
BlockSleep ==
  /\ blockPc = "sleep"
  /\ blockPc' = "check"
  /\ UNCHANGED <<busVars, svcVars, shutdown>>
  /\ UNCHANGED otherVarsHalt

\* except KeyboardInterrupt: break
BlockInterrupt ==
  /\ blockPc = "sleep"
  /\ blockPc' = "stopfire"
  /\ UNCHANGED <<busVars, svcVars, shutdown>>
  /\ UNCHANGED otherVarsHalt

\* self.stop(): self.bus.fire(EVENT_HOMEASSISTANT_STOP)
BlockStopFire ==
  /\ blockPc = "stopfire"
  /\ FireNow(EVENT_HOMEASSISTANT_STOP, NoArg)
  /\ blockPc' = "drain"
  /\ UNCHANGED <<listeners, busLock, cpc, csnap, cpos, cfire, wpc, wjob,
                 runFlag, fireLog, enqLog, deqLog, execLog, nListens, onceDone>>
  /\ UNCHANGED <<svcVars, shutdown>>
  /\ UNCHANGED otherVarsHalt

\* self.pool.block_till_done(); self.pool.stop(); block_till_stopped returns
BlockDrain ==
  /\ blockPc = "drain"
  /\ queue = {}
  /\ \A w \in Workers : wpc[w] = "idle"
  /\ blockPc' = "returned"
  /\ UNCHANGED <<busVars, svcVars, shutdown>>
  /\ UNCHANGED otherVarsHalt

\* another thread calls homeassistant.stop (not after the pool stopped)
HaltCall ==
  /\ blockPc # "returned"
  /\ CallListen(SERVICE_HOMEASSISTANT_STOP, FALSE)

\* _execute_service running the registered lambda: request_shutdown.set(),
\* then fire service_executed with the call's id
RunStopService(w) ==
  /\ wpc[w] = "run"
  /\ wjob[w].fn = Execute
  /\ wjob[w].arg.svc = SERVICE_HOMEASSISTANT_STOP
  /\ shutdown' = TRUE
  /\ FireNow(EVENT_SERVICE_EXECUTED, ExecutedArg(wjob[w].arg.cid))
  /\ svcFires' = Append(svcFires, wjob[w].arg.cid)
  /\ svcRuns' = Append(svcRuns, [cid |-> wjob[w].arg.cid, outcome |-> "ok"])
  /\ wpc' = [wpc EXCEPT ![w] = "idle"]
  /\ wjob' = [wjob EXCEPT ![w] = NoJob]
  /\ UNCHANGED <<listeners, busLock, cpc, csnap, cpos, cfire, runFlag,
                 fireLog, enqLog, deqLog, execLog, nListens, onceDone>>
  /\ UNCHANGED <<services, curId, scPc, scCall, gate, callLog, svNow, wake>>
  /\ UNCHANGED blockPc
  /\ UNCHANGED otherVarsHalt

HaltWorker(w) ==
  \/ SvcDequeue(w)
  \/ RunEventToServiceCall(w)
  \/ RunStopService(w)

BlockThread == BlockRegister \/ BlockCheck \/ BlockSleep \/ BlockStopFire \/ BlockDrain

NextHalt ==
  \/ BlockThread
  \/ BlockInterrupt
  \/ HaltCall
  \/ CallFire
  \/ \E w \in Workers : HaltWorker(w)

SpecHalt ==
  /\ InitHalt /\ [][NextHalt]_vars
  /\ WF_vars(BlockThread)
  /\ WF_vars(CallFire)
  /\ \A w \in Workers : WF_vars(HaltWorker(w))

\* ---------------------------------------------------------------------
\* State serialization: State.as_dict / State.from_dict / State.__eq__.
\* util.datetime_to_str / util.str_to_datetime use the format
\* "%H:%M:%S %d-%m-%Y"; strings are sequences of characters.
\* ---------------------------------------------------------------------
otherVarsRt == <<busVars, smVars, heapVars, svcVars, idVars, ptVars, tmVars, tcVars, stopVars, haltVars, remVars, dataVars>>

Digit == <<"0", "1", "2", "3", "4", "5", "6", "7", "8", "9">>
DigitVal(c) == CHOOSE d \in 0..9 : Digit[d + 1] = c
Pad2(n) == <<Digit[(n \div 10) + 1], Digit[(n % 10) + 1]>>
Pad4(n) == Pad2(n \div 100) \o Pad2(n % 100)
Num2(str, i) == 10 * DigitVal(str[i]) + DigitVal(str[i + 1])
Num4(str, i) == 100 * Num2(str, i) + Num2(str, i + 2)

\* util.strip_microseconds on a datetime
StripMicroseconds(t) == [t EXCEPT !.us = 0]

\* util.datetime_to_str: dt.strftime(DATE_STR_FORMAT)
datetime_to_str(t) ==
  Pad2(t.h) \o <<":">> \o Pad2(t.mi) \o <<":">> \o Pad2(t.s) \o <<" ">> \o
  Pad2(t.D) \o <<"-">> \o Pad2(t.Mo) \o <<"-">> \o Pad4(t.Y)

\* util.str_to_datetime: dt.datetime.strptime(dt_str, DATE_STR_FORMAT),
\* None when the string does not have that format
str_to_datetime(str) ==
  IF /\ Len(str) = 19
     /\ str[3] = ":" /\ str[6] = ":" /\ str[9] = " "
     /\ str[12] = "-" /\ str[15] = "-"
     /\ \A i \in {1, 2, 4, 5, 7, 8, 10, 11, 13, 14, 16, 17, 18, 19} : str[i] \in {Digit[j] : j \in 1..10}
  THEN [Y |-> Num4(str, 16), Mo |-> Num2(str, 13), D |-> Num2(str, 10),
        h |-> Num2(str, 1), mi |-> Num2(str, 4), s |-> Num2(str, 7), us |-> 0]
  ELSE PyNoneDt

\* State.__init__ with a datetime clock: raise InvalidEntityFormatError
\* unless ENTITY_ID_PATTERN matches entity_id; then entity_id.lower(),
\* last_updated = now, last_changed = strip_microseconds(last_changed or
\* last_updated)
State_new(entity_id, state, attributes, last_changed, now) ==
  IF ~ENTITY_ID_PATTERN_match(entity_id) THEN RtRaised
  ELSE
  [entity_id |-> Lower(entity_id), state |-> state, attributes |-> attributes,
   last_updated |-> now,
   last_changed |-> StripMicroseconds(IF last_changed = PyNoneDt THEN now ELSE last_changed)]

\* State.as_dict
as_dict(st) ==
  [entity_id |-> st.entity_id, state |-> st.state, attributes |-> st.attributes,
   last_changed |-> datetime_to_str(st.last_changed)]

\* State.from_dict (the dict always has entity_id and state here)
from_dict(json_dict, now) ==
  State_new(json_dict.entity_id, json_dict.state, json_dict.attributes,
            IF Len(json_dict.last_changed) > 0
            THEN str_to_datetime(json_dict.last_changed) ELSE PyNoneDt,
            now)

\* State.__eq__
StateEq(a, b) ==
  /\ a.entity_id = b.entity_id
  /\ a.state = b.state
  /\ a.attributes = b.attributes

\* entity ids, wall-clock readings and last_changed arguments
RtIds == {<<"A", ".", "a">>, <<"a", ".", "a">>, <<"Idot", ".", "a">>}
RtTimes == {[Y |-> 2015, Mo |-> m, D |-> d, h |-> hh, mi |-> 7, s |-> ss, us |-> u] :
              m \in {1, 12}, d \in {1, 31}, hh \in {0, 23}, ss \in {0, 59}, u \in {0, 1}}
RtNows == {[Y |-> 2015, Mo |-> 12, D |-> 31, h |-> 23, mi |-> 59, s |-> 59, us |-> u] : u \in {0, 1}}

\* construct a State, then State.from_dict(state.as_dict()) at a later now
\* (from_dict's constructor may raise)
RoundTrip ==
  /\ rtOut = RtNoState
  /\ \E r \in RtIds, v \in StateValues, a \in AttrValues,
        lc \in RtTimes \cup {PyNoneDt}, n1 \in RtNows, n2 \in RtNows :
       LET st == State_new(r, v, a, lc, n1)
       IN /\ st # RtRaised
          /\ rtIn' = st
          /\ rtOut' = from_dict(as_dict(st), n2)
  /\ UNCHANGED otherVarsRt

SpecRound == Init /\ [][RoundTrip]_vars

\* ---------------------------------------------------------------------
\* Data of a service call: ServiceRegistry.call builds the call_service
\* event data from the caller's service_data, and _event_to_service_call
\* (run by a worker) turns it into a ServiceCall. Dicts are values; the
\* caller's object after the call is the event data when call used it.
\* ---------------------------------------------------------------------
ATTR_DOMAIN == "domain"
ATTR_SERVICE == "service"
ATTR_SERVICE_CALL_ID == "service_call_id"
DataDomain == "test"
DataKeys == {"brightness", "color"}
DataValues == {"50", "red"}
otherVarsData == <<busVars, smVars, heapVars, svcVars, idVars, ptVars, tmVars, tcVars, stopVars, haltVars, rtVars, remVars>>

\* service_data arguments: None, {} and dicts over DataKeys
ServiceDatas ==
  {DictNone} \cup {PyDict(f) : f \in UNION {[ks -> DataValues] : ks \in SUBSET DataKeys}}

\* bool(x) of a dict argument
Truthy(x) == ~x.none /\ DOMAIN x.d # {}

\* d[key] = value
DictSet(d, key, value) == [k \in DOMAIN d \cup {key} |-> IF k = key THEN value ELSE d[k]]

\* d.pop(key, None) for each key: d without these keys
DictWithout(d, ks) == [k \in DOMAIN d \ ks |-> d[k]]

\* "{}-{}".format(id(self), self._cur_id)
CallIdStr(n) == "reg-" \o ToString(n)

\* ServiceRegistry.call, up to the fire: event_data = service_data or {};
\* event_data[ATTR_DOMAIN] = domain; event_data[ATTR_SERVICE] = service;
\* event_data[ATTR_SERVICE_CALL_ID] = call_id; fire call_service
DataCall ==
  /\ dPc = "idle"
  /\ \E sd \in ServiceDatas, svc \in SvcNames, n \in 1..MaxCalls :
       LET base == IF Truthy(sd) THEN sd.d ELSE EmptyDict
           ev == DictSet(DictSet(DictSet(base, ATTR_DOMAIN, DataDomain),
                                 ATTR_SERVICE, svc), ATTR_SERVICE_CALL_ID, CallIdStr(n))
       IN /\ dIn' = sd
          /\ dCaller' = IF Truthy(sd) THEN PyDict(ev) ELSE sd
          /\ dEvent' = ev
  /\ dPc' = "fired"
  /\ UNCHANGED <<dCall, dPrio>>
  /\ UNCHANGED otherVarsData

\* _event_to_service_call handing the whole event data to the ServiceCall
DataDispatchFullData ==
  /\ dPc = "fired"
  /\ IF dEvent[ATTR_DOMAIN] = DataDomain /\ dEvent[ATTR_SERVICE] \in Registered
     THEN /\ dCall' = dEvent
          /\ dPrio' = EVENT_SERVICE
     ELSE UNCHANGED <<dCall, dPrio>>
  /\ dPc' = "done"
  /\ UNCHANGED <<dIn, dCaller, dEvent>>
  /\ UNCHANGED otherVarsData

\* ServiceRegistry._event_to_service_call: service_data = dict(event.data),
\* pop domain and service; if registered, add a job at EVENT_SERVICE
\* priority running _execute_service with ServiceCall(domain, service,
\* service_data) (whose data is service_data or {})
DataDispatch ==
  /\ dPc = "fired"
  /\ LET service_data == DictWithout(dEvent, {ATTR_DOMAIN, ATTR_SERVICE})
         domain == dEvent[ATTR_DOMAIN]
         service == dEvent[ATTR_SERVICE]
     IN IF domain = DataDomain /\ service \in Registered
        THEN /\ dCall' = service_data
             /\ dPrio' = EVENT_SERVICE
        ELSE UNCHANGED <<dCall, dPrio>>
  /\ dPc' = "done"
  /\ UNCHANGED <<dIn, dCaller, dEvent>>
  /\ UNCHANGED otherVarsData

NextData == DataCall \/ DataDispatch

SpecData == Init /\ [][NextData]_vars

\* event types passed to remove_listener: registered, and absent ones
RemoveTypes == {MATCH_ALL} \cup FireTypes

\* Client threads registering, removing and firing (no job execution)
NextFire ==
  \/ \E c \in Callers, t \in FireTypes : FireBegin(c, t)
  \/ \E c \in Callers : FireEnq(c)
  \/ \E p \in ListenPairs : Listen(p[1], p[2])
  \/ \E t \in RemoveTypes, l \in PlainListeners : RemoveListener(t, l)

SpecFire == Init /\ [][NextFire]_vars

\* Registering and firing with the workers executing the jobs
NextPool ==
  \/ \E c \in Callers, t \in FireTypes : FireBegin(c, t)
  \/ \E c \in Callers : FireEnq(c)
  \/ \E p \in ListenPairs : Listen(p[1], p[2])
  \/ \E w \in Workers : Dequeue(w)
  \/ \E w \in Workers : RunListener(w)

SpecPool == Init /\ [][NextPool]_vars

\* Listeners registered on MATCH_ALL and on OrderType by one thread, the
\* k-th listen call registering the listener OrderNames[k], and fires of
\* OrderType by another thread with the workers executing the jobs
MaxOrderListens == 4
OrderNames == [k \in 1..(MaxOrderListens + 1) |-> "l" \o ToString(k)]
OrderType == "x"
OrderCaller == "c1"
NextOrder ==
  \/ \E t \in {MATCH_ALL, OrderType} :
       ListenCapped(t, OrderNames[nListens + 1], MaxOrderListens)
  \/ FireBegin(OrderCaller, OrderType)
  \/ FireEnq(OrderCaller)
  \/ \E w \in Workers : Dequeue(w)
  \/ \E w \in Workers : RunListener(w)

SpecOrder == Init /\ [][NextOrder]_vars

\* Fires of every kind of event type (one per priority band) by one
\* thread, one listen call registering a listener on MATCH_ALL, and the
\* workers
PrioTypes == {EVENT_SERVICE_EXECUTED, EVENT_CALL_SERVICE, EVENT_STATE_CHANGED,
              EVENT_TIME_CHANGED, "x"}
PrioCaller == "c1"
PrioListener == "p1"
PrioListens == 1
NextPrio ==
  \/ ListenCapped(MATCH_ALL, PrioListener, PrioListens)
  \/ \E t \in PrioTypes : FireBegin(PrioCaller, t)
  \/ FireEnq(PrioCaller)
  \/ \E w \in Workers : Dequeue(w)
  \/ \E w \in Workers : RunListener(w)

SpecPrio == Init /\ [][NextPrio]_vars

\* A one-time listener on OnceType and fires of that type
NextOnce ==
  \/ \E c \in Callers : FireBegin(c, OnceType)
  \/ \E c \in Callers : FireEnq(c)
  \/ ListenOnce
  \/ \E w \in Workers : Dequeue(w)
  \/ \E w \in Workers : GuardCheck(w)
  \/ \E w \in Workers : GuardSet(w)
  \/ \E w \in Workers : GuardRemove(w)
  \/ \E w \in Workers : GuardInvoke(w)

SpecOnce == Init /\ [][NextOnce]_vars

\* listen, listen_once, remove_listener and the one-time listener's guard
\* run by the workers on fires of its type (one firing thread, one
\* plain listener on the same type)
TableCaller == "c1"
TableListener == "p2"
NextTable ==
  \/ Listen(OnceType, TableListener)
  \/ ListenOnce
  \/ \E t \in RemoveTypes : RemoveListener(t, TableListener)
  \/ FireBegin(TableCaller, OnceType)
  \/ FireEnq(TableCaller)
  \/ \E w \in Workers : Dequeue(w)
  \/ \E w \in Workers : RunListener(w)
  \/ \E w \in Workers : GuardCheck(w)
  \/ \E w \in Workers : GuardSet(w)
  \/ \E w \in Workers : GuardRemove(w)
  \/ \E w \in Workers : GuardInvoke(w)

SpecTable == Init /\ [][NextTable]_vars

\* entity id passed to set in the state-machine specifications
SMIds == {<<"A", ".", "a">>}

\* set calls on one entity while the clock advances
NextSM ==
  \/ \E r \in SMIds, v \in StateValues, a \in AttrValues : Set(r, v, a)
  \/ Tick

SpecSM == Init /\ [][NextSM]_vars

\* set and remove calls on one entity (each under the state lock) while
\* the clock advances
NextChain ==
  \/ \E r \in SMIds, v \in StateValues, a \in AttrValues : Set(r, v, a)
  \/ \E r \in SMIds : Remove(r)
  \/ Tick

SpecChain == Init /\ [][NextChain]_vars

\* set calls observed by a listener registered on state_changed
Observer == "obs"
NextObs ==
  \/ \E r \in SMIds, v \in StateValues, a \in AttrValues : Set(r, v, a)
  \/ Listen(EVENT_STATE_CHANGED, Observer)
  \/ \E w \in Workers : Dequeue(w)
  \/ \E w \in Workers : RunListener(w)

SpecObs == Init /\ [][NextObs]_vars

\* set / remove / get over well-formed and malformed entity ids
NextIds ==
  \/ \E r \in RawIds, v \in StateValues, a \in AttrValues : Set(r, v, a)
  \/ \E r \in RawIds : Remove(r)

SpecIds == Init /\ [][NextIds]_vars

\* =====================================================================
\* Claims
\* =====================================================================
Range(s) == {s[i] : i \in DOMAIN s}
\* number of executions in bag b satisfying P
Count(b, P(_)) == BagCardinality([e \in {x \in DOMAIN b : P(x)} |-> b[e]])
IsTargetRun(e) == e.fn = Target
\* listener names of the jobs of fire i, in enqueue / dequeue order
EnqOf(i) == [k \in 1..Len(SelectSeq(enqLog, LAMBDA j : j.fire = i)) |->
               SelectSeq(enqLog, LAMBDA j : j.fire = i)[k].fn]
DeqOf(i) == [k \in 1..Len(SelectSeq(deqLog, LAMBDA j : j.fire = i)) |->
               SelectSeq(deqLog, LAMBDA j : j.fire = i)[k].fn]
InProgress(i) == \E c \in Callers : cpc[c] = "enq" /\ cfire[c] = i
IsPrefix(a, b) == Len(a) <= Len(b) /\ a = SubSeq(b, 1, Len(a))
\* listeners[MATCH_ALL] ++ listeners[type] as the table stood at fire i
ExpectedJobs(i) ==
  LET t == fireLog[i].table IN
  (IF MATCH_ALL \in DOMAIN t THEN t[MATCH_ALL] ELSE << >>)
  \o (IF fireLog[i].type \in DOMAIN t THEN t[fireLog[i].type] ELSE << >>)

\* C1: for a listen_once guard, the target f runs at most once over any
\* sequence of fires, even with several enqueued copies run concurrently.
C1_OnceAtMostOnce == Count(execLog, IsTargetRun) <= 1

\* C2: after listen_once("x", f), fire("x"), fire("x") and a pool drain, f
\* has run exactly once and the guard is no longer listed for "x".
C2_OnceScenario ==
  (/\ Drained
   /\ Len(fireLog) = 2
   /\ \A i \in 1..2 : fireLog[i].type = OnceType
   /\ Guard \in Range(Get(fireLog[1].table, OnceType)))
  => /\ Count(execLog, IsTargetRun) = 1
     /\ Guard \notin Range(Get(listeners, OnceType))

\* C3: each fire enqueues exactly one job per entry of
\* listeners[MATCH_ALL] ++ listeners[event_type] as the table stood when it
\* fired; later listen / remove_listener calls do not change that dispatch.
C3_FanOut ==
  \A i \in 1..Len(fireLog) :
    IF InProgress(i) THEN IsPrefix(EnqOf(i), ExpectedJobs(i))
    ELSE EnqOf(i) = ExpectedJobs(i)
W_C3 ==
  \E i \in 1..Len(fireLog) :
    /\ ~InProgress(i) /\ Len(EnqOf(i)) >= 2
    /\ fireLog[i].table # listeners

\* the listeners registered on event_type before fire i, in registration
\* order (the k-th listen call registers OrderNames[k])
RegisteredBefore(i, event_type) ==
  SelectSeq(OrderNames, LAMBDA n : n \in Range(Get(fireLog[i].table, event_type)))

\* C4: the jobs of one fire are enqueued and dequeued MATCH_ALL listeners
\* first, then the type's listeners, each group in registration order.
C4_DispatchOrder ==
  \A i \in 1..Len(fireLog) :
    LET order == RegisteredBefore(i, MATCH_ALL) \o RegisteredBefore(i, fireLog[i].type)
    IN /\ IsPrefix(EnqOf(i), order)
       /\ IsPrefix(DeqOf(i), order)
W_C4 ==
  \E i \in 1..Len(fireLog) :
    /\ Len(DeqOf(i)) = 4
    /\ Len(Get(fireLog[i].table, MATCH_ALL)) = 2
    /\ Len(Get(fireLog[i].table, fireLog[i].type)) = 2
    /\ DeqOf(i)[1] # OrderNames[1]

\* C5: for two fires of the same type, all jobs of the first are enqueued
\* before any job of the second.
C5_NoInterleave ==
  \A a, b \in 1..Len(enqLog) :
    (a < b /\ fireLog[enqLog[a].fire].type = fireLog[enqLog[b].fire].type)
      => enqLog[a].fire <= enqLog[b].fire
W_C5 ==
  \E i, j \in 1..Len(fireLog) :
    /\ i < j
    /\ fireLog[i].type = fireLog[j].type
    /\ EnqOf(i) # << >> /\ EnqOf(j) # << >>
    /\ ~InProgress(i) /\ ~InProgress(j)

\* C6: job priorities are service_executed=0, call_service=1,
\* state_changed=2, time_changed=3, other=4, and every dequeue takes a
\* pending job of least priority value, the earliest enqueued among those.
PriorityOf(t) ==
  IF t = "service_executed" THEN 0
  ELSE IF t = "call_service" THEN 1
  ELSE IF t = "state_changed" THEN 2
  ELSE IF t = "time_changed" THEN 3
  ELSE 4
C6_PriorityOrder ==
  /\ [](\A k \in 1..Len(enqLog) : enqLog[k].prio = PriorityOf(fireLog[enqLog[k].fire].type))
  /\ [][\A w \in Workers :
          (wpc[w] = "idle" /\ wpc'[w] # "idle") =>
            \A k \in queue \ {wjob'[w]} :
              \/ wjob'[w].prio < k.prio
              \/ (wjob'[w].prio = k.prio /\ wjob'[w].seq < k.seq)]_vars
W_C6 ==
  \E a, b \in 1..Len(deqLog) :
    a < b /\ deqLog[a].seq > deqLog[b].seq /\ deqLog[a].prio < deqLog[b].prio

\* Number of occurrences of x in sequence s
Mult(s, x) == Len(SelectSeq(s, LAMBDA y : y = x))
ObsRuns(f) == Count(execLog, LAMBDA e : e.fn = Observer /\ e.fire = f)
LastSet == setLog[Len(setLog)]
SetChanges(r) ==
  /\ ~r.raised
  /\ (~r.existed \/ r.old.state # r.state \/ r.old.attributes # r.attributes)

\* C7: every set that changes state or attributes (or creates the entity)
\* fires exactly one state_changed event carrying entity_id and new_state,
\* with old_state exactly when the entity existed; a listener registered
\* before the call runs once per registration for that event.
C7_StateChangedEvent ==
  \A k \in 1..Len(setLog) :
    LET r == setLog[k]
        evs == {i \in 1..Len(smEvents) : smEvents[i].set = k}
    IN SetChanges(r) =>
         /\ Cardinality(evs) = 1
         /\ \A i \in evs :
              LET e == smEvents[i]
                  reg == Mult(Get(fireLog[e.fire].table, EVENT_STATE_CHANGED), Observer)
              IN /\ fireLog[e.fire].type = EVENT_STATE_CHANGED
                 /\ e.entity_id = r.entity_id
                 /\ e.new_state.state = r.state
                 /\ e.new_state.attributes = r.attributes
                 /\ e.hasOld = r.existed
                 /\ (e.hasOld => e.old_state = r.old)
                 /\ ObsRuns(e.fire) <= reg
                 /\ (Drained => ObsRuns(e.fire) = reg)
W_C7 ==
  /\ Drained
  /\ \E i \in 1..Len(smEvents) :
       /\ smEvents[i].hasOld
       /\ Mult(Get(fireLog[smEvents[i].fire].table, EVENT_STATE_CHANGED), Observer) = 1
       /\ ObsRuns(smEvents[i].fire) = 1

\* C8: set with the same state and attributes as the stored State of an
\* existing entity changes nothing and fires no event.
C8_IdenticalSetNoop ==
  [][(/\ Len(setLog') = Len(setLog) + 1
      /\ setLog'[Len(setLog')].entity_id \in DOMAIN states
      /\ states[setLog'[Len(setLog')].entity_id].state = setLog'[Len(setLog')].state
      /\ states[setLog'[Len(setLog')].entity_id].attributes = setLog'[Len(setLog')].attributes)
     => /\ states' = states
        /\ fireLog' = fireLog
        /\ queue' = queue]_vars
W_C8 ==
  /\ Len(setLog) >= 2
  /\ LastSet.existed
  /\ LastSet.old.state = LastSet.state
  /\ LastSet.old.attributes = LastSet.attributes

\* A set call that stored a new State in this step
StoredBySet ==
  /\ Len(setLog') = Len(setLog) + 1
  /\ states' # states

\* C9 (as claimed): on an existing entity last_changed equals the previous
\* last_changed iff the state string is unchanged; a changed or new entity
\* gets the truncated current time; last_updated is the current time.
C9_LastChangedIff ==
  [][StoredBySet =>
       LET r == setLog'[Len(setLog')]
           n == states'[r.entity_id]
       IN /\ n.last_updated = clock
          /\ r.existed => ((n.last_changed = r.old.last_changed) <=> (r.old.state = r.state))
          /\ (~r.existed \/ r.old.state # r.state) =>
               n.last_changed = (clock \div TicksPerSecond) * TicksPerSecond]_vars

\* C9 (amended): a set that stores a new State sets last_updated to the
\* current time; last_changed is carried over from the previous State when
\* the state string is unchanged (attributes-only change), and is the
\* current time truncated to whole seconds otherwise (which can coincide
\* with the previous last_changed when both fall in the same second).
C9_LastChanged ==
  [][StoredBySet =>
       LET r == setLog'[Len(setLog')]
           n == states'[r.entity_id]
       IN /\ n.last_updated = clock
          /\ n.last_changed =
               IF r.existed /\ r.old.state = r.state
               THEN r.old.last_changed
               ELSE (clock \div TicksPerSecond) * TicksPerSecond]_vars
W_C9 ==
  /\ Len(setLog) >= 2
  /\ ~LastSet.raised
  /\ LastSet.existed
  /\ LastSet.old.state = LastSet.state
  /\ LastSet.old.attributes # LastSet.attributes
  /\ (LastSet.now \div TicksPerSecond) * TicksPerSecond # LastSet.old.last_changed

\* Entity-id grammar <word>.<word>, word = [A-Za-z0-9_]+
GrammarWord(s) == Len(s) > 0 /\ \A i \in 1..Len(s) : s[i] \in {"a", "A"}
GrammarId(s) ==
  \E i \in 2..(Len(s) - 1) :
    s[i] = "." /\ GrammarWord(SubSeq(s, 1, i - 1)) /\ GrammarWord(SubSeq(s, i + 1, Len(s)))
IsLowerId(s) == \A i \in 1..Len(s) : s[i] # "A"

\* C10: every stored entity_id key is lowercase and matches <word>.<word>;
\* building a State for a malformed id raises InvalidEntityFormatError; get
\* is case-insensitive and returns the State with the lowercase entity_id.
C10_EntityIds ==
  /\ \A e \in DOMAIN states :
       IsLowerId(e) /\ GrammarId(e) /\ states[e].entity_id = e
  /\ \A k \in 1..Len(setLog) :
       (~GrammarId(setLog[k].entity_id) /\ ~setLog[k].existed) => setLog[k].raised
  /\ \A r \in RawIds :
       Lower(r) \in DOMAIN states => get(states, r, clock).entity_id = Lower(r)


\* C11: no sequence of mutations by a reader on States returned by get, all
\* or get_since changes the State stored in the registry: every stored
\* object still holds what set stored.
C11_ReadsCopy == \A e \in DOMAIN smRefs : heap[smRefs[e]] = shadow[e]


\* number of service_executed fires and of normally returning handler
\* invocations for a call id
NumExecutedFires(cid) == Len(SelectSeq(svcFires, LAMBDA x : x = cid))
NumOkRuns(cid) == Len(SelectSeq(svcRuns, LAMBDA r : r.cid = cid /\ r.outcome = "ok"))
NumRaisedRuns(cid) == Len(SelectSeq(svcRuns, LAMBDA r : r.cid = cid /\ r.outcome = "raised"))

\* C12 (as stated): a blocking call of a registered service whose handler
\* returns normally (ping, slow) returns true, and each handler invocation
\* that returns normally fires exactly one service_executed with its id.
C12_BlockingCallTrue ==
  /\ \A i \in 1..Len(callLog) :
       callLog[i].svc \in {"ping", "slow"} => callLog[i].result = TRUE
  /\ \A cid \in 1..curId : NumExecutedFires(cid) = NumOkRuns(cid)

\* C12 (amended): a blocking call returns true exactly for the handler that
\* returns before SERVICE_CALL_LIMIT (ping) and false for the one that
\* returns after it (slow); per call id, one service_executed is fired per
\* normally returning handler invocation (at most one), none when it raised.
C12_BlockingCall ==
  /\ \A i \in 1..Len(callLog) :
       callLog[i].result = (callLog[i].svc = "ping")
  /\ \A cid \in 1..curId :
       /\ NumExecutedFires(cid) = NumOkRuns(cid)
       /\ NumOkRuns(cid) + NumRaisedRuns(cid) <= 1

W_C12 ==
  /\ \E i \in 1..Len(callLog) :
       /\ callLog[i].svc = "ping"
       /\ callLog[i].result = TRUE
       /\ NumExecutedFires(callLog[i].cid) = 1
  /\ \E i \in 1..Len(callLog) : callLog[i].svc = "slow"

\* C13: a blocking call of a slow, raising or unregistered service returns
\* false; after a false return the call's service_executed closure is not
\* in the listener table; a job running _execute_service exists only for a
\* registered service.
C13_TimeoutFalse ==
  /\ \A i \in 1..Len(callLog) :
       callLog[i].svc \in {"slow", "boom", "nosvc"} => callLog[i].result = FALSE
  /\ \A i \in 1..Len(callLog) :
       callLog[i].result = FALSE =>
         ExecListener(callLog[i].cid) \notin Range(Get(listeners, EVENT_SERVICE_EXECUTED))
  /\ \A j \in queue \cup {wjob[w] : w \in Workers} :
       j.fn = Execute => j.arg.svc \in services

W_C13 ==
  /\ \E i \in 1..Len(callLog) : callLog[i].svc = "slow" /\ callLog[i].result = FALSE
  /\ \E i \in 1..Len(callLog) : callLog[i].svc = "nosvc" /\ callLog[i].result = FALSE


\* C14: the call ids returned by _generate_unique_id are pairwise distinct,
\* across threads calling one registry and across registries.
C14_DistinctCallIds ==
  \A i, j \in 1..Len(genIds) : i # j => genIds[i] # genIds[j]


\* C15: remove_listener of an absent type or unregistered listener leaves
\* the table unchanged; otherwise it removes one occurrence, leaves the
\* other buckets alone and drops the bucket when it becomes empty (no
\* bucket is ever empty); a fire whose snapshot has no entry for a
\* listener (registered, then removed) enqueues no job for it.
C15_RemoveListener ==
  /\ [][\A t \in RemoveTypes, l \in PlainListeners :
         RemoveListener(t, l) =>
           IF l \in Range(Get(listeners, t))
           THEN /\ Len(Get(listeners', t)) = Len(Get(listeners, t)) - 1
                /\ Mult(Get(listeners', t), l) = Mult(Get(listeners, t), l) - 1
                /\ (t \in DOMAIN listeners') = (Get(listeners', t) # << >>)
                /\ DOMAIN listeners' \ {t} = DOMAIN listeners \ {t}
                /\ \A k \in DOMAIN listeners \ {t} : listeners'[k] = listeners[k]
           ELSE listeners' = listeners]_vars
  /\ [](\A k \in DOMAIN listeners : listeners[k] # << >>)
  /\ [](\A i \in 1..Len(fireLog) : \A l \in PlainListeners :
         Mult(ExpectedJobs(i), l) = 0 => Mult(EnqOf(i), l) = 0)

W_C15 ==
  \E i, j \in 1..Len(fireLog) :
    /\ j < i
    /\ fireLog[i].type = "x"
    /\ "p2" \in Range(Get(fireLog[j].table, "x"))
    /\ "x" \notin DOMAIN fireLog[i].table
    /\ ~InProgress(i)
    /\ Mult(EnqOf(i), "p2") = 0


\* C16: once a time_changed event with now >= PtPoint has been fired and
\* the pool has drained, action has run exactly once, with a now >=
\* PtPoint, and point_in_time_listener is no longer on time_changed; it
\* never runs more than once.
PtDrained == queue = {} /\ \A w \in Workers : wpc[w] = "idle"
C16_PointInTimeOnce ==
  /\ Len(ptCalls) <= 1
  /\ (PtDrained /\ ptClock - 1 >= PtPoint) =>
       /\ Len(ptCalls) = 1
       /\ ptCalls[1] >= PtPoint
       /\ PitListener \notin Range(Get(listeners, EVENT_TIME_CHANGED))


\* C17 (as stated): every time_changed the Timer fires has now.second
\* divisible by the interval, and two consecutive ones never have the same
\* now.second.
C17_TimerAligned ==
  /\ \A i \in 1..Len(tmFires) : NowSecond(tmFires[i].now) % tmInterval = 0
  /\ \A i \in 1..(Len(tmFires) - 1) :
       NowSecond(tmFires[i].now) # NowSecond(tmFires[i + 1].now)


\* C18: a listener that raises does not stop its worker: whenever the pool
\* is drained every job of every dispatch has been run (the raising one,
\* the others of the same fire and those of later fires), and the pool
\* always ends up drained.
ExcAllRun ==
  \A i \in 1..Len(fireLog) : \A l \in {"p1", "p2", Raiser} :
    Count(execLog, LAMBDA e : e.fn = l /\ e.fire = i) = Mult(EnqOf(i), l)
C18_ExceptionsContained ==
  /\ [](Drained => ExcAllRun)
  /\ <>[]Drained

W_C18 ==
  /\ Drained
  /\ Len(fireLog) = MaxFires
  /\ Count(execLog, LAMBDA e : e.fn = Raiser) = MaxFires
  /\ Count(execLog, LAMBDA e : e.fn = "p2") = MaxFires


\* C19: state_listener calls action exactly when the event's entity_id is
\* one of the lowercased entity_ids, the old state value (None for a new
\* entity) is allowed by from_state and the new one by to_state, a
\* pattern allowing everything for None or MATCH_ALL and otherwise the
\* set of the given value(s).
AllowedBy(arg, x) ==
  \/ arg.kind = "none"
  \/ arg = ArgStr(PyStr(MATCH_ALL))
  \/ x \in Range(arg.v)
C19_TrackChange ==
  tcOut # "none" =>
    (tcOut = "called") =
            /\ tcIn.entity \in {Lower(x) : x \in Range(tcIn.ids.v)}
            /\ AllowedBy(tcIn.from, IF tcIn.hasOld THEN PyStr(tcIn.old) ELSE PyNone)
            /\ AllowedBy(tcIn.to, PyStr(tcIn.new))

W_C19 ==
  /\ tcOut = "called"
  /\ tcIn.ids.kind = "str"
  /\ ~tcIn.hasOld
  /\ tcIn.from = ArgNone
  /\ tcIn.to.kind = "list"


\* C20: stop() calls pool.stop() only once the jobs of homeassistant_stop
\* (and the jobs they enqueue) have all finished, and once stop() has
\* returned the Timer thread eventually leaves its loop and fires no more.
C20_StopDrainsAndTimerEnds ==
  /\ [](hassPc = "stopped" => drainedAtStop)
  /\ (hassPc = "stopped") ~> (timerPc = "exit")

\* C21: while block_till_stopped is waiting (polling request_shutdown), a
\* call of the homeassistant.stop service leads to stop() being called and
\* block_till_stopped returning.
C21_StopServiceEndsBlock ==
  (blockPc \in {"check", "sleep"} /\ scPc = "fire") ~> (blockPc = "returned")

W_C21 == blockPc = "returned" /\ shutdown /\ Len(svcRuns) >= 1

\* C22: State.from_dict(s.as_dict()) == s (entity_id, state and attributes
\* equal), and last_changed survives the round trip since it is already
\* truncated to whole seconds.
C22_RoundTrip ==
  rtOut # RtNoState =>
    /\ StateEq(rtOut, rtIn)
    /\ rtOut.last_changed = rtIn.last_changed


\* C23: after any sequence of listen, listen_once, remove_listener and
\* one-time guard runs, every event_type key of the listener table maps to
\* a non-empty list and the listeners view reports each list's length.
C23_TableShape ==
  /\ \A k \in DOMAIN listeners : Len(listeners[k]) > 0
  /\ DOMAIN listeners_view(listeners) = DOMAIN listeners
  /\ \A k \in DOMAIN listeners : listeners_view(listeners)[k] = Len(listeners[k])

W_C23 == /\ runFlag
         /\ OnceType \in DOMAIN listeners
         /\ Guard \notin Range(listeners[OnceType])
         /\ listeners_view(listeners)[OnceType] = 1

\* C24 (as stated): call(blocking=true) listens before firing, so a handler
\* finishing before the wait still makes it return True, and once it has
\* returned True its service_executed closure is no longer registered.
ExecRegistered(cid) == ExecListener(cid) \in Range(Get(listeners, EVENT_SERVICE_EXECUTED))
C24_RemovedOnTrue ==
  \A i \in 1..Len(callLog) : callLog[i].result = TRUE => ~ExecRegistered(callLog[i].cid)

\* C24 (amended): a blocking call's closure is registered before
\* call_service is fired and stays so until its event is set; once the
\* event is set before the limit the call can only return True; after a
\* True return the closure is still registered only while the worker that
\* set the event has yet to run its remove_listener.
C24_RegisterBeforeFire ==
  /\ [](scPc \in {"fire", "wait"} /\ scCall.blocking =>
          ExecRegistered(scCall.cid) \/ scCall.cid \in gate)
  /\ [][scPc = "wait" /\ scCall.cid \in gate /\ svNow < scCall.deadline =>
          \/ UNCHANGED <<scPc, callLog>>
          \/ callLog' = Append(callLog, [cid |-> scCall.cid, svc |-> scCall.svc,
                                          blocking |-> TRUE, result |-> TRUE])]_vars
  /\ [](\A i \in 1..Len(callLog) :
          callLog[i].result = TRUE /\ ExecRegistered(callLog[i].cid) =>
            \E w \in Workers : wpc[w] = "remove" /\ wjob[w].fn = ExecListener(callLog[i].cid))

W_C24 == \E i \in 1..Len(callLog) : callLog[i].result = TRUE /\ ExecRegistered(callLog[i].cid)

\* C25: the state_changed events fired by set for one entity form a chain:
\* an event with old_state carries the new_state of the previous event, an
\* event without old_state comes first or after the entity was removed,
\* and the stored State is the new_state of the last event.
ChainEntity == Lower(CHOOSE r \in SMIds : TRUE)
C25_EventChain ==
  /\ [][Len(smEvents') > Len(smEvents) =>
          LET ev == smEvents'[Len(smEvents')]
          IN IF ev.hasOld
             THEN Len(smEvents) > 0 /\ ev.old_state = smEvents[Len(smEvents)].new_state
             ELSE ChainEntity \notin DOMAIN states]_vars
  /\ [](ChainEntity \in DOMAIN states =>
          Len(smEvents) > 0 /\ states[ChainEntity] = smEvents[Len(smEvents)].new_state)

W_C25 == Len(smEvents) >= 2 /\ smEvents[Len(smEvents)].hasOld

\* C26: remove returns true iff the entity existed, fires no event, and the
\* next set on that id is a creation (its event has no old_state).
C26_RemoveFrame ==
  /\ [][\A r \in SMIds :
          Remove(r) =>
            /\ removeRet' = IF Lower(r) \in DOMAIN states THEN "true" ELSE "false"
            /\ Lower(r) \notin DOMAIN states'
            /\ UNCHANGED <<fireLog, enqLog, queue, seqNo, smEvents>>]_vars
  /\ [][removeRet = "true" /\ ChainEntity \notin DOMAIN states /\ Len(smEvents') > Len(smEvents) =>
          ~smEvents'[Len(smEvents')].hasOld]_vars

W_C26 == removeRet = "true" /\ Len(smEvents) >= 2 /\ ~smEvents[Len(smEvents)].hasOld

\* C27: for a registered (domain, service), _event_to_service_call adds a
\* job at EVENT_SERVICE priority whose ServiceCall data is the event data
\* without domain and service, service_call_id included; an unregistered
\* one adds no job.
C27_ServiceCallData ==
  dPc = "done" =>
    IF dEvent[ATTR_SERVICE] \in Registered
    THEN /\ dPrio = EVENT_SERVICE
         /\ dCall = DictWithout(dEvent, {ATTR_DOMAIN, ATTR_SERVICE})
         /\ ATTR_SERVICE_CALL_ID \in DOMAIN dCall
         /\ ATTR_DOMAIN \notin DOMAIN dCall /\ ATTR_SERVICE \notin DOMAIN dCall
    ELSE dPrio = -1

W_C27 == dPc = "done" /\ dPrio = EVENT_SERVICE /\ "brightness" \in DOMAIN dCall

\* C28: ServiceRegistry.call leaves the caller's service_data unchanged.
C28_CallerDataUnchanged == dPc # "idle" => dCaller = dIn

====
